---------------------------- MODULE Spec2Model ----------------------------
(***************************************************************************)
(* Model of the VOICE_Bot backends (voice-bot-backend, choice-bot-backend): *)
(* the WebSocket connection handler, the session registry, the query        *)
(* pipeline, name detection and the tenant-partitioned vector store.        *)
(***************************************************************************)
EXTENDS Integers, Sequences, FiniteSets, TLC

(***************************************************************************)
(* Text.  A Python str is modelled as a sequence of one-character strings.  *)
(***************************************************************************)
\* Python's None, among values that are sequences
None == <<"None">>

LowerAlpha == <<"a","b","c","d","e","f","g","h","i","j","k","l","m",
                "n","o","p","q","r","s","t","u","v","w","x","y","z">>
UpperAlpha == <<"A","B","C","D","E","F","G","H","I","J","K","L","M",
                "N","O","P","Q","R","S","T","U","V","W","X","Y","Z">>

Whitespace == {" ", "\t"}

IsUpperCh(ch) == \E i \in 1..Len(UpperAlpha) : UpperAlpha[i] = ch
IsLowerCh(ch) == \E i \in 1..Len(LowerAlpha) : LowerAlpha[i] = ch
\* [a-zA-Z]
IsAlpha(ch) == IsUpperCh(ch) \/ IsLowerCh(ch)

LowerCh(ch) ==
    IF IsUpperCh(ch)
    THEN LowerAlpha[CHOOSE i \in 1..Len(UpperAlpha) : UpperAlpha[i] = ch]
    ELSE ch
UpperCh(ch) ==
    IF IsLowerCh(ch)
    THEN UpperAlpha[CHOOSE i \in 1..Len(LowerAlpha) : LowerAlpha[i] = ch]
    ELSE ch

\* str.capitalize(): first character upper-cased, the rest lower-cased
capitalize(s) ==
    [i \in 1..Len(s) |-> IF i = 1 THEN UpperCh(s[i]) ELSE LowerCh(s[i])]

\* str.strip(): surrounding whitespace removed
strip(s) ==
    LET keep == {i \in 1..Len(s) : s[i] \notin Whitespace}
    IN  IF keep = {} THEN <<>>
        ELSE LET lo == CHOOSE i \in keep : \A j \in keep : i <= j
                 hi == CHOOSE i \in keep : \A j \in keep : j <= i
             IN  SubSeq(s, lo, hi)

RECURSIVE Cat(_)
\* concatenation of a sequence of texts
Cat(parts) == IF parts = <<>> THEN <<>> ELSE Head(parts) \o Cat(Tail(parts))

(***************************************************************************)
(* Name detection (app/main.py, detect_user_name).                          *)
(***************************************************************************)
\* the literal parts of the three patterns; each is followed by \s+([a-zA-Z]+)
patterns == <<
    <<"m","y"," ","n","a","m","e"," ","i","s">>,
    <<"i"," ","a","m">>,
    <<"i","'","m">> >>

\* end (exclusive) of the maximal run of characters satisfying the class
\* that starts at position i
RECURSIVE WsRunEnd(_, _)
WsRunEnd(text, i) ==
    IF i <= Len(text) /\ text[i] \in Whitespace THEN WsRunEnd(text, i + 1) ELSE i
RECURSIVE AlphaRunEnd(_, _)
AlphaRunEnd(text, i) ==
    IF i <= Len(text) /\ IsAlpha(text[i]) THEN AlphaRunEnd(text, i + 1) ELSE i

\* does  <literal>\s+([a-zA-Z]+)  match at position i, ignoring case?
MatchAt(lit, text, i) ==
    /\ i + Len(lit) - 1 <= Len(text)
    /\ \A j \in 1..Len(lit) : LowerCh(text[i + j - 1]) = lit[j]
    /\ LET w == i + Len(lit)
       IN  /\ WsRunEnd(text, w) > w
           /\ AlphaRunEnd(text, WsRunEnd(text, w)) > WsRunEnd(text, w)

\* match.group(1) of the match at position i
Group1(lit, text, i) ==
    LET a == WsRunEnd(text, i + Len(lit))
    IN  SubSeq(text, a, AlphaRunEnd(text, a) - 1)

\* re.search(pattern, text, re.IGNORECASE): the leftmost match, or None
re_search(lit, text) ==
    LET hits == {i \in 1..Len(text) : MatchAt(lit, text, i)}
    IN  IF hits = {} THEN None
        ELSE Group1(lit, text, CHOOSE i \in hits : \A j \in hits : i <= j)

\* the loop body as written: `return None` sits inside the for loop, at the
\* indentation of `if match:`, so the first iteration always returns
detect_from(n, text) ==
    IF n > Len(patterns) THEN None
    ELSE LET match == re_search(patterns[n], text)
         IN  IF match # None THEN capitalize(match)
             ELSE None

detect_user_name(text) == detect_from(1, text)


(***************************************************************************)
(* Bounds and the small input sets of the model.                            *)
(***************************************************************************)
\* inbound messages a client sends at most (Spec, SpecProtocol, SpecSession)
MaxMsgs == 1
MaxProtocolMsgs == 1
MaxTurnMsgs == 2
MaxDispatchMsgs == 2
MaxConcurrentMsgs == 1
MaxSessionMsgs == 6
\* ingestion requests served at most
MaxIngests == 2
MaxIngestRequests == 3
MaxChoiceMsgs == 3
MaxSharedMsgs == 1
MaxCancelMsgs == 2

Conns == {"ws1", "ws2"}
Tenants == {"A", "B"}
\* values id(websocket) can take
ObjIds == {"id1", "id2"}

\* program constants
\* get_vector_retriever(client_id, k = 4)
k == 4
\* chat_history[-10:]
HistoryCap == 10
\* websocket.close(code=1008)
PolicyViolation == 1008

(***************************************************************************)
(* Fixed texts of the program.  A text without content the patterns look    *)
(* at is kept as one element.                                               *)
(***************************************************************************)
initial_greeting == <<"Hello! My name is VOICE, how can I assist you today?">>
NoRetrieverMsg ==
    <<"I don't have any documents for this client. Please ingest documents first.">>
NotFoundMsg == <<"I couldn't find relevant information in the uploaded documents.">>
ApologyMsg == <<"Error: I encountered a problem while trying to generate a response.">>
HandlerApologyMsg == <<"Sorry - I had an error processing your request.">>
UnsupportedMsg == <<"Unsupported message type.">>
WhisperNotLoaded == <<"[", "Error: Whisper model not loaded", "]">>
TranscriptionError == <<"[", "Transcription error: ", "]">>

(***************************************************************************)
(* Knowledge store (core/vector_store.py).                                  *)
(***************************************************************************)
\* A file of a source directory: its extension, whether loader.load()
\* returns, and the documents it loads to; a document is the sequence of
\* chunks the text splitter cuts it into.
DirListing ==
    [ dirA     |-> << [ext |-> ".txt", loads |-> TRUE,  docs |-> << <<"a1">> >>] >>,
      dirB     |-> << [ext |-> ".exe", loads |-> TRUE,  docs |-> << <<"x1">> >>],
                      [ext |-> ".PDF", loads |-> TRUE,  docs |-> << <<"b1">> >>] >>,
      dirBlank |-> << [ext |-> ".txt", loads |-> TRUE,  docs |-> << <<>> >>] >>,
      dirJunk  |-> << [ext |-> ".md",  loads |-> TRUE,  docs |-> << <<"m1">> >>],
                      [ext |-> ".csv", loads |-> FALSE, docs |-> << <<"c1">> >>] >>,
      dirMixed |-> << [ext |-> ".csv", loads |-> FALSE, docs |-> << <<"c2">> >>],
                      [ext |-> ".txt", loads |-> TRUE,  docs |-> << <<"t1", "t2">> >>],
                      [ext |-> ".md",  loads |-> TRUE,  docs |-> << <<"m2">> >>] >> ]
SourcePaths == DOMAIN DirListing \cup {"nodir"}

\* os.path.isdir(source_path)
isdir(source_path) == source_path \in DOMAIN DirListing

\* extension.lower()
LowerExt(ext) == IF ext = ".PDF" THEN ".pdf" ELSE ext

\* get_document_loader: a loader for the four supported extensions, else None
get_document_loader(file) ==
    IF LowerExt(file.ext) \in {".pdf", ".docx", ".csv", ".txt"}
    THEN <<"loader", file>> ELSE None

RECURSIVE LoadAllAborting(_)
LoadAllAborting(files) ==
    IF files = <<>> THEN <<>>
    ELSE LET loader == get_document_loader(Head(files))
         IN  IF loader # None /\ loader[2].loads
             THEN loader[2].docs \o LoadAllAborting(Tail(files))
             ELSE <<>>
RECURSIVE LoadAll(_)
\* the loop over os.listdir: documents.extend(loader.load()), a file whose
\* load raises or that has no loader adds nothing
LoadAll(files) ==
    IF files = <<>> THEN <<>>
    ELSE LET loader == get_document_loader(Head(files))
         IN  (IF loader # None /\ loader[2].loads THEN loader[2].docs ELSE <<>>)
               \o LoadAll(Tail(files))

\* text_splitter.split_documents(documents)
split_documents(documents) == Cat(documents)

CollectionNameShared(client_id) == <<"client_", "default">>
\* collection_name = f"client_{client_id}"
CollectionName(client_id) == <<"client_", client_id>>

from_documents_replacing(store, name, splits, commit) ==
    LET old == IF name \in DOMAIN store THEN store[name] ELSE <<>>
        new == IF commit = "ok" THEN splits ELSE old
    IN  IF commit = "raise_early" THEN store
        ELSE [n \in DOMAIN store \cup {name} |-> IF n = name THEN new ELSE store[n]]
\* Chroma.from_documents: the collection is created when missing and the
\* chunks are added to it; it may raise before or after the creation
from_documents(store, name, splits, commit) ==
    LET old == IF name \in DOMAIN store THEN store[name] ELSE <<>>
        new == IF commit = "ok" THEN old \o splits ELSE old
    IN  IF commit = "raise_early" THEN store
        ELSE [n \in DOMAIN store \cup {name} |-> IF n = name THEN new ELSE store[n]]

\* get_vector_retriever: the retriever bound to the client's collection, or
\* None when the Chroma constructor raises (collection missing, store not
\* opened)
get_vector_retriever(store, client_id, open) ==
    IF CollectionName(client_id) \in DOMAIN store /\ open = "ok"
    THEN <<"retriever", CollectionName(client_id)>>
    ELSE None

RECURSIVE SeqToSet(_)
SeqToSet(s) == IF s = <<>> THEN {} ELSE {Head(s)} \cup SeqToSet(Tail(s))

\* retriever.get_relevant_documents: the k nearest chunks of the collection
\* (all of it when it holds no more than k)
get_relevant_documents(store, retriever, query) ==
    LET coll == store[retriever[2]]
    IN  SubSeq(coll, 1, IF Len(coll) < k THEN Len(coll) ELSE k)


\* load_and_embed_documents: the store afterwards and the returned flag
load_and_embed_documents_ignoring_commit(store, client_id, source_directory, commit) ==
    LET documents == LoadAll(DirListing[source_directory])
        splits == split_documents(documents)
    IN  IF documents = <<>>
        THEN [store |-> store, success |-> FALSE, added |-> <<>>]
        ELSE [store |-> from_documents(store, CollectionName(client_id), splits, commit),
              success |-> TRUE,
              added |-> IF commit = "ok" THEN splits ELSE <<>>]
load_and_embed_documents(store, client_id, source_directory, commit) ==
    LET documents == LoadAll(DirListing[source_directory])
        splits == split_documents(documents)
    IN  IF documents = <<>>
        THEN [store |-> store, success |-> FALSE, added |-> <<>>]
        ELSE [store |-> from_documents(store, CollectionName(client_id), splits, commit),
              success |-> (commit = "ok"),
              added |-> IF commit = "ok" THEN splits ELSE <<>>]

(***************************************************************************)
(* Conversation engine (voice-bot-backend core/rag_service.py).             *)
(***************************************************************************)
ValueError == <<"ValueError">>

\* create_rag_chain: the chain bound to the client's retriever, or ValueError
create_rag_chain(store, client_id, open) ==
    LET retriever == get_vector_retriever(store, client_id, open)
    IN  IF retriever = None THEN ValueError ELSE <<"chain", retriever>>

\* full_prompt = f"Context:\n{context}\n\nQuestion: {query}"
FullPrompt(docs, query) == [context |-> docs, question |-> query]

\* the text the generation backend returns for a prompt (a black box: it is
\* kept as a function of the context it was given)
Answer(full_prompt) == <<"answer from:">> \o full_prompt.context

\* process_query after the retrieval returned `docs`: the short-circuit on
\* no passage, else the generation call
AfterRetrievalAlwaysGenerate(docs) == "generate"
AfterRetrieval(docs) == IF docs = <<>> THEN "not_found" ELSE "generate"

\* process_query's result for an outcome of the generation call: the text,
\* or the apology of the except clause when the call raises or the response
\* carries no text (getattr(response, "text") is empty and response has no
\* .get, which raises inside the try)
Raised == <<"raise">>
GenerationResultUncaught(full_prompt, outcome) ==
    IF outcome = "text" THEN Answer(full_prompt) ELSE Raised
GenerationResult(full_prompt, outcome) ==
    IF outcome = "text" THEN Answer(full_prompt) ELSE ApologyMsg

(***************************************************************************)
(* Speech codec (voice-bot-backend core/audio_service.py).                  *)
(***************************************************************************)
\* generate_speech_audio: MP3 bytes, or b"" when gTTS fails
generate_speech_audio_raising(text, language, outcome) ==
    IF outcome = "bytes" THEN <<"mp3">> ELSE Raised
generate_speech_audio(text, language, outcome) ==
    IF outcome = "bytes" THEN <<"mp3">> ELSE <<>>

\* base64.b64encode(bytes(tts_result)).decode("utf-8")
b64encode(bytes) == IF bytes = <<>> THEN <<>> ELSE <<"base64:">> \o bytes

\* audio_data payloads of the model and base64.b64decode on them
AudioOk == <<"QUJD">>
AudioBad == <<"QUJ">>
b64decode(payload) == IF payload = AudioOk THEN <<"ABC">> ELSE <<"binascii.Error">>

TempAudioPathShared(id) == <<"temp_audio_", "0", ".wav">>
\* temp_audio_path = f"temp_audio_{id(websocket)}.wav"
TempAudioPath(id) == <<"temp_audio_", id, ".wav">>

(***************************************************************************)
(* Connection handler (voice-bot-backend app/main.py, websocket_endpoint).  *)
(***************************************************************************)
VARIABLES
    collections,     \* the Chroma store: collection name -> chunks
    ingested,        \* per tenant, the chunks ingested for it (history)
    ingest_left,     \* ingestion requests still to come
    http_response,   \* status of the last /ingest/ response
    ingest_call,     \* what the last /ingest/ request did (history)
    files,           \* scratch files on disk: path -> content
    active_sessions, \* websocket -> session object
    session_data,    \* the handler's session_data dict, per connection
    pc,              \* where each handler is suspended
    client_id,       \* path parameter of the connection
    ws_id,           \* id(websocket)
    peer,            \* "open" | "gone": the client's end of the socket
    to_send,         \* inbound messages the client may still send
    inbox,           \* messages received from the client, in order (history)
    frame,           \* the handler's locals of the current iteration
    outbox,          \* messages sent to the client, in order (history)
    turns,           \* completed turns <<query, response>> (history)
    life,            \* handler lifecycle record (history)
    text_in,         \* SpecDetect: the input text
    name_out         \* SpecDetect: the result

storeVars == <<collections, ingested, ingest_left, http_response, ingest_call>>
connVars == <<active_sessions, session_data, pc, client_id, ws_id, peer, to_send, inbox,
              frame, outbox, turns, life>>
detectVars == <<text_in, name_out>>
vars == <<storeVars, files, connVars, detectVars>>

\* load_and_embed_documents was not called
NotCalled == [called |-> FALSE, documents |-> 0, commit |-> "none"]

\* a call of load_and_embed_documents: how many documents the loop over the
\* directory collected and how Chroma.from_documents ended, when it was reached
IngestCall(source_directory, commit) ==
    LET documents == LoadAll(DirListing[source_directory])
    IN  [called |-> TRUE, documents |-> Len(documents),
         commit |-> IF documents = <<>> THEN "none" ELSE commit]

BlankFrame ==
    [query_text |-> None, response_text |-> None, retriever |-> None,
     retrieval |-> "none", docs |-> <<>>, generation |-> "not_called",
     audio_base64 |-> <<>>, temp_audio_path |-> None, tts_language |-> "unset"]

\* built counts the handler's calls of get_vector_retriever (create_rag_chain
\* at the handshake, process_query in a turn)
NewLife ==
    [exit |-> "none", config_error |-> FALSE, inserts |-> 0, removals |-> 0,
     reached_loop |-> FALSE, close_code |-> 0, received |-> 0,
     built |-> 0]

Live(c) == pc[c] \notin {"idle", "done"}

HandlerInit(msgs) ==
    /\ files = <<>>
    /\ active_sessions = <<>>
    /\ session_data = <<>>
    /\ pc = [c \in Conns |-> "idle"]
    /\ client_id = [c \in Conns |-> "A"]
    /\ ws_id = [c \in Conns |-> "id1"]
    /\ peer = [c \in Conns |-> "open"]
    /\ to_send = msgs
    /\ inbox = [c \in Conns |-> <<>>]
    /\ frame = [c \in Conns |-> BlankFrame]
    /\ outbox = [c \in Conns |-> <<>>]
    /\ turns = [c \in Conns |-> <<>>]
    /\ life = [c \in Conns |-> NewLife]

StoreInit ==
    /\ collections = <<>>
    /\ ingested = [t \in Tenants |-> {}]
    /\ ingest_left = MaxIngests
    /\ http_response = 0
    /\ ingest_call = NotCalled

DetectIdle == text_in = <<>> /\ name_out = <<"unset">>


(***************************************************************************)
(* Pieces of the handler that are pure functions of its state.              *)
(***************************************************************************)
\* session_data = {...} of lines 109-114
NewSession(rag_chain) ==
    [user_name |-> None, language |-> "en", chat_history |-> <<>>,
     rag_chain |-> rag_chain]

\* lines 199-203: name detection while user_name is unset
PersonalizeOverwrite(sd, query_text) ==
    LET user_name == detect_user_name(query_text)
    IN  IF user_name # None THEN [sd EXCEPT !.user_name = user_name] ELSE sd
Personalize(sd, query_text) ==
    IF sd.user_name = None \/ sd.user_name = <<>>
    THEN LET user_name == detect_user_name(query_text)
         IN  IF user_name # None /\ user_name # <<>>
             THEN [sd EXCEPT !.user_name = user_name] ELSE sd
    ELSE sd

\* lines 124 and 220: the language handed to generate_speech_audio
SynthesisLanguageDefault(sd) == "en"
SynthesisLanguage(sd) == sd.language

\* lines 206-215: the handler's own except clause around process_query
RagResponse(result) == IF result = Raised THEN HandlerApologyMsg ELSE result

\* s[-n:]
LastNLessOne(s, n) == IF Len(s) <= n THEN s ELSE SubSeq(s, Len(s) - n + 2, Len(s))
LastN(s, n) == IF Len(s) <= n THEN s ELSE SubSeq(s, Len(s) - n + 1, Len(s))

\* lines 251-253: the two appends and the trim
UpdateHistoryFirstN(chat_history, query_text, response_text) ==
    SubSeq(chat_history \o << <<"user", query_text>>, <<"assistant", response_text>> >>,
           1, IF Len(chat_history) + 2 < HistoryCap THEN Len(chat_history) + 2
              ELSE HistoryCap)
UpdateHistoryAssistantFirst(chat_history, query_text, response_text) ==
    LastN(chat_history \o << <<"assistant", response_text>>, <<"user", query_text>> >>,
          HistoryCap)
UpdateHistoryNewestFirst(chat_history, query_text, response_text) ==
    LastN(<< <<"user", query_text>>, <<"assistant", response_text>> >> \o chat_history,
          HistoryCap)
UpdateHistory(chat_history, query_text, response_text) ==
    LastN(chat_history \o << <<"user", query_text>>, <<"assistant", response_text>> >>,
          HistoryCap)

RemoveEveryKey(reg, ws) == <<>>
Remove(reg, ws) == [x \in DOMAIN reg \ {ws} |-> reg[x]]

\* lines 255-261: what is left of the registry when the receive loop ends with
\* exception `exc` (the finally clause runs for every one)
LoopExitRegistryDisconnectOnly(reg, ws, exc) ==
    IF exc = "WebSocketDisconnect" /\ ws \in DOMAIN reg THEN Remove(reg, ws) ELSE reg
LoopExitRegistry(reg, ws, exc) ==
    IF ws \in DOMAIN reg THEN Remove(reg, ws) ELSE reg

\* lines 107-115: the session is created and registered after
\* create_rag_chain has returned, so not when it raises
SessionCreatedBeforeChain(rag_chain) == TRUE
SessionCreated(rag_chain) == rag_chain # ValueError

\* line 162: session_data['language'] = data["language"], whatever the value
SwitchLanguageKnownOnly(sd, data) ==
    IF data.language \in {"en", "hi"} THEN [sd EXCEPT !.language = data.language] ELSE sd
SwitchLanguage(sd, data) == [sd EXCEPT !.language = data.language]

\* data.get("type") == type: a message without a type matches no branch
HasTypeMissingMatches(data, type) == "type" \notin DOMAIN data \/ data.type = type
HasType(data, type) == "type" \in DOMAIN data /\ data.type = type

JsonNumber == <<"json number">>
IsStr(v) == v # JsonNumber

UpdEveryKey(f, c, v) == [x \in DOMAIN f \cup {c} |-> v]
Upd(f, c, v) == [x \in DOMAIN f \cup {c} |-> IF x = c THEN v ELSE f[x]]

(***************************************************************************)
(* Actions: one per stretch of the handler between two awaits.              *)
(***************************************************************************)
\* a client opens /ws/{client_id}; the handler starts and awaits accept()
Connect(c) ==
    /\ pc[c] = "idle"
    /\ \E t \in Tenants, id \in ObjIds :
        /\ \A d \in Conns : Live(d) => ws_id[d] # id
        /\ client_id' = [client_id EXCEPT ![c] = t]
        /\ ws_id' = [ws_id EXCEPT ![c] = id]
    /\ pc' = [pc EXCEPT ![c] = "accept"]
    /\ UNCHANGED <<storeVars, files, detectVars, active_sessions, session_data, peer,
                   to_send, inbox, frame, outbox, turns, life>>

\* the client goes away (at any time while the handler runs)
ClientDisconnect(c) ==
    /\ Live(c)
    /\ peer[c] = "open"
    /\ peer' = [peer EXCEPT ![c] = "gone"]
    /\ UNCHANGED <<storeVars, files, detectVars, active_sessions, session_data, pc,
                   client_id, ws_id, to_send, inbox, frame, outbox, turns, life>>

\* an exception leaves the handler: outside the loop's try nothing catches it
Escape(c) ==
    /\ pc' = [pc EXCEPT ![c] = "done"]
    /\ life' = [life EXCEPT ![c].exit = "escaped"]
    /\ UNCHANGED <<active_sessions, session_data, outbox, turns, frame>>

\* the loop's try ends with exception exc: except clauses, finally, return
LoopExit(c, exc, read) ==
    /\ pc' = [pc EXCEPT ![c] = "done"]
    /\ active_sessions' = LoopExitRegistry(active_sessions, c, exc)
    /\ life' = [life EXCEPT ![c].exit = exc,
                            ![c].received = @ + read,
                            ![c].removals =
                                IF c \in DOMAIN active_sessions
                                      /\ c \notin DOMAIN LoopExitRegistry(active_sessions, c, exc)
                                THEN @ + 1 ELSE @]
    /\ UNCHANGED <<session_data, outbox, turns, frame>>

\* lines 106-120: create_rag_chain, then register the session, or report
\* the ValueError
AcceptDone(c, opens) ==
    /\ pc[c] = "accept"
    /\ \E open \in opens :
        LET rag_chain == create_rag_chain(collections, client_id[c], open)
        IN  /\ IF SessionCreated(rag_chain)
               THEN /\ session_data' = Upd(session_data, c, NewSession(rag_chain))
                    /\ active_sessions' = Upd(active_sessions, c, <<"session of", c>>)
                    /\ life' = [life EXCEPT ![c].inserts = @ + 1,
                                            ![c].built = @ + 1,
                                            ![c].config_error = (rag_chain = ValueError)]
               ELSE /\ life' = [life EXCEPT ![c].built = @ + 1,
                                            ![c].config_error = (rag_chain = ValueError)]
                    /\ UNCHANGED <<session_data, active_sessions>>
            /\ pc' = [pc EXCEPT ![c] = IF rag_chain = ValueError THEN "cfg_send"
                                       ELSE "greet_tts"]
    /\ UNCHANGED <<storeVars, files, detectVars, client_id, ws_id, peer, to_send, inbox,
                   frame, outbox, turns>>

ConfigErrorText(client) ==
    <<"Could not initialize retriever for client ", client, ". Has data been ingested?">>

\* line 118 returns: the error message went out (or the send raised)
CfgErrorSent(c) ==
    /\ pc[c] = "cfg_send"
    /\ IF peer[c] = "open"
       THEN /\ outbox' = [outbox EXCEPT ![c] =
                    Append(@, [type |-> "error", text |-> ConfigErrorText(client_id[c]),
                               audio |-> None])]
            /\ pc' = [pc EXCEPT ![c] = "cfg_close"]
            /\ UNCHANGED <<active_sessions, session_data, turns, frame, life>>
       ELSE Escape(c)
    /\ UNCHANGED <<storeVars, files, detectVars, client_id, ws_id, peer, to_send, inbox>>

\* lines 119-120: close(code=1008) returns, the handler returns
CfgClosed(c) ==
    /\ pc[c] = "cfg_close"
    /\ IF peer[c] = "open"
       THEN /\ pc' = [pc EXCEPT ![c] = "done"]
            /\ life' = [life EXCEPT ![c].exit = "returned",
                                    ![c].close_code = PolicyViolation]
            /\ UNCHANGED <<active_sessions, session_data, outbox, turns, frame>>
       ELSE Escape(c)
    /\ UNCHANGED <<storeVars, files, detectVars, client_id, ws_id, peer, to_send, inbox>>

\* lines 123-144: the greeting's speech came back from the worker thread
GreetingSynthesized(c, ttsOutcomes) ==
    /\ pc[c] = "greet_tts"
    /\ \E o \in ttsOutcomes :
        frame' = [frame EXCEPT
            ![c].tts_language = SynthesisLanguage(session_data[c]),
            ![c].audio_base64 =
                b64encode(generate_speech_audio(initial_greeting,
                                                SynthesisLanguage(session_data[c]), o))]
    /\ pc' = [pc EXCEPT ![c] = "greet_send"]
    /\ UNCHANGED <<storeVars, files, detectVars, active_sessions, session_data,
                   client_id, ws_id, peer, to_send, inbox, outbox, turns, life>>

\* lines 146-155: the greeting went out and the loop's try is entered, or
\* the send raised outside any try
GreetingSent(c) ==
    /\ pc[c] = "greet_send"
    /\ IF peer[c] = "open"
       THEN /\ outbox' = [outbox EXCEPT ![c] =
                    Append(@, [type |-> "response", text |-> initial_greeting,
                               audio |-> frame[c].audio_base64])]
            /\ pc' = [pc EXCEPT ![c] = "receive"]
            /\ life' = [life EXCEPT ![c].reached_loop = TRUE]
            /\ frame' = [frame EXCEPT ![c] = BlankFrame]
            /\ UNCHANGED <<active_sessions, session_data, turns>>
       ELSE Escape(c)
    /\ UNCHANGED <<storeVars, files, detectVars, client_id, ws_id, peer, to_send, inbox>>


\* lines 198-212 and process_query up to its first await: name detection,
\* then the retriever is looked up anew and the retrieval is handed to a
\* worker thread; without a retriever process_query returns at once
TurnStart(c, query_text, open) ==
    LET retriever == get_vector_retriever(collections, client_id[c], open)
    IN  /\ session_data' = [session_data EXCEPT ![c] = Personalize(@, query_text)]
        /\ IF retriever = None
           THEN /\ frame' = [frame EXCEPT ![c].query_text = query_text,
                                          ![c].retrieval = "no_retriever",
                                          ![c].response_text = RagResponse(NoRetrieverMsg)]
                /\ pc' = [pc EXCEPT ![c] = "tts"]
           ELSE /\ frame' = [frame EXCEPT ![c].query_text = query_text,
                                          ![c].retriever = retriever]
                /\ pc' = [pc EXCEPT ![c] = "pq_retrieve"]

\* line 157 raises WebSocketDisconnect: the client is gone
ReceiveDisconnect(c) ==
    /\ pc[c] = "receive"
    /\ peer[c] = "gone"
    /\ LoopExit(c, "WebSocketDisconnect", 0)
    /\ UNCHANGED <<storeVars, files, detectVars, client_id, ws_id, peer, to_send, inbox>>

\* lines 157-196: receive_json returns `data`; dispatch on its type
Receive(c, msgs, opens) ==
    /\ pc[c] = "receive"
    /\ peer[c] = "open"
    /\ to_send[c] > 0
    /\ to_send' = [to_send EXCEPT ![c] = @ - 1]
    /\ \E data \in msgs, open \in opens :
        /\ inbox' = [inbox EXCEPT ![c] = Append(@, data)]
        /\ IF HasType(data, "language_switch")
           THEN IF "language" \in DOMAIN data
                THEN /\ session_data' = [session_data EXCEPT ![c] = SwitchLanguage(@, data)]
                     /\ frame' = [frame EXCEPT ![c].response_text =
                                       <<"Language set to ", data.language>>]
                     /\ pc' = [pc EXCEPT ![c] = "status_send"]
                     /\ life' = [life EXCEPT ![c].received = @ + 1]
                     /\ UNCHANGED <<active_sessions, files, outbox, turns>>
                ELSE \* data["language"]: KeyError
                     /\ LoopExit(c, "Exception", 1)
                     /\ UNCHANGED files
           ELSE IF HasType(data, "text_query")
           THEN LET text == IF "text" \in DOMAIN data THEN data.text ELSE <<>>
                IN  IF IsStr(text)
                    THEN /\ TurnStart(c, strip(text), open)
                         /\ life' = [life EXCEPT ![c].received = @ + 1,
                                                 ![c].built = @ + 1]
                         /\ UNCHANGED <<active_sessions, files, outbox, turns>>
                    ELSE \* .strip() on a value that is no str: AttributeError
                         /\ LoopExit(c, "Exception", 1)
                         /\ UNCHANGED files
           ELSE IF HasType(data, "audio_query")
           THEN IF "audio_data" \in DOMAIN data
                     /\ b64decode(data.audio_data) # <<"binascii.Error">>
                THEN /\ files' = Upd(files, TempAudioPath(ws_id[c]),
                                     <<c, b64decode(data.audio_data)>>)
                     /\ frame' = [frame EXCEPT ![c].temp_audio_path =
                                       TempAudioPath(ws_id[c])]
                     /\ pc' = [pc EXCEPT ![c] = "transcribe"]
                     /\ life' = [life EXCEPT ![c].received = @ + 1]
                     /\ UNCHANGED <<active_sessions, session_data, outbox, turns>>
                ELSE \* data["audio_data"]: KeyError, or b64decode raises
                     /\ LoopExit(c, "Exception", 1)
                     /\ UNCHANGED files
           ELSE /\ frame' = [frame EXCEPT ![c].response_text = UnsupportedMsg]
                /\ pc' = [pc EXCEPT ![c] = "error_send"]
                /\ life' = [life EXCEPT ![c].received = @ + 1]
                /\ UNCHANGED <<active_sessions, session_data, files, outbox, turns>>
    /\ UNCHANGED <<storeVars, detectVars, client_id, ws_id, peer>>

\* a send_json inside the loop returns and the loop continues, or raises
\* because the client is gone
LoopSend(c, msg) ==
    IF peer[c] = "open"
    THEN /\ outbox' = [outbox EXCEPT ![c] = Append(@, msg)]
         /\ pc' = [pc EXCEPT ![c] = "receive"]
         /\ frame' = [frame EXCEPT ![c] = BlankFrame]
         /\ UNCHANGED <<active_sessions, session_data, turns, life>>
    ELSE LoopExit(c, "WebSocketDisconnect", 0)

\* lines 164-165: the acknowledgement of a language switch went out
StatusSent(c) ==
    /\ pc[c] = "status_send"
    /\ LoopSend(c, [type |-> "status", text |-> frame[c].response_text, audio |-> None])
    /\ UNCHANGED <<storeVars, files, detectVars, client_id, ws_id, peer, to_send, inbox>>

\* lines 195-196: the "unsupported type" error went out
ErrorSent(c) ==
    /\ pc[c] = "error_send"
    /\ LoopSend(c, [type |-> "error", text |-> frame[c].response_text, audio |-> None])
    /\ UNCHANGED <<storeVars, files, detectVars, client_id, ws_id, peer, to_send, inbox>>

\* lines 180-187: the finally clause around the transcription removes the
\* scratch file whether the awaited call returned or raised
ScratchAfterTranscriptionOnReturn(disk, temp_audio_path, outcome) ==
    IF outcome = Raised THEN disk ELSE Remove(disk, temp_audio_path)
ScratchAfterTranscription(disk, temp_audio_path, outcome) ==
    Remove(disk, temp_audio_path)

\* lines 180-193: the transcription thread returned, or the await raised;
\* the scratch file is removed and the echo is sent, or the exception ends
\* the loop
Transcribed(c, transcripts) ==
    /\ pc[c] = "transcribe"
    /\ \E outcome \in transcripts :
        /\ files' = ScratchAfterTranscription(files, frame[c].temp_audio_path, outcome)
        /\ IF outcome = Raised
           THEN LoopExit(c, "Exception", 0)
           ELSE /\ frame' = [frame EXCEPT ![c].query_text = outcome]
                /\ pc' = [pc EXCEPT ![c] = "echo_send"]
                /\ UNCHANGED <<active_sessions, session_data, outbox, turns, life>>
    /\ UNCHANGED <<storeVars, detectVars, client_id, ws_id, peer, to_send, inbox>>

\* lines 189-212: the echo went out and the turn starts, or the send raised
EchoSentSilently(c, opens) ==
    /\ pc[c] = "echo_send"
    /\ IF peer[c] = "open"
       THEN /\ \E open \in opens : TurnStart(c, frame[c].query_text, open)
            /\ life' = [life EXCEPT ![c].built = @ + 1]
            /\ UNCHANGED <<active_sessions, turns, outbox>>
       ELSE LoopExit(c, "WebSocketDisconnect", 0)
    /\ UNCHANGED <<storeVars, files, detectVars, client_id, ws_id, peer, to_send, inbox>>
EchoSent(c, opens) ==
    /\ pc[c] = "echo_send"
    /\ IF peer[c] = "open"
       THEN /\ outbox' = [outbox EXCEPT ![c] =
                    Append(@, [type |-> "user_message", text |-> frame[c].query_text,
                               audio |-> None])]
            /\ \E open \in opens : TurnStart(c, frame[c].query_text, open)
            /\ life' = [life EXCEPT ![c].built = @ + 1]
            /\ UNCHANGED <<active_sessions, turns>>
       ELSE LoopExit(c, "WebSocketDisconnect", 0)
    /\ UNCHANGED <<storeVars, files, detectVars, client_id, ws_id, peer, to_send, inbox>>

\* process_query lines 78-94: the retrieval thread returned (or raised)
Retrieved(c, outcomes) ==
    /\ pc[c] = "pq_retrieve"
    /\ \E o \in outcomes :
        IF o = "raise"
        THEN /\ frame' = [frame EXCEPT ![c].retrieval = "raised",
                                       ![c].response_text = RagResponse(ApologyMsg)]
             /\ pc' = [pc EXCEPT ![c] = "tts"]
        ELSE LET docs == get_relevant_documents(collections, frame[c].retriever,
                                                frame[c].query_text)
             IN  IF AfterRetrieval(docs) = "not_found"
                 THEN /\ frame' = [frame EXCEPT ![c].retrieval = "returned",
                                                ![c].docs = docs,
                                                ![c].response_text = RagResponse(NotFoundMsg)]
                      /\ pc' = [pc EXCEPT ![c] = "tts"]
                 ELSE /\ frame' = [frame EXCEPT ![c].retrieval = "returned",
                                                ![c].docs = docs]
                      /\ pc' = [pc EXCEPT ![c] = "pq_generate"]
    /\ UNCHANGED <<storeVars, files, detectVars, active_sessions, session_data,
                   client_id, ws_id, peer, to_send, inbox, outbox, turns, life>>

\* process_query lines 94-104: generate_content_async returned (or raised)
Generated(c, outcomes) ==
    /\ pc[c] = "pq_generate"
    /\ \E o \in outcomes :
        frame' = [frame EXCEPT
            ![c].generation = o,
            ![c].response_text =
                RagResponse(GenerationResult(FullPrompt(frame[c].docs, frame[c].query_text), o))]
    /\ pc' = [pc EXCEPT ![c] = "tts"]
    /\ UNCHANGED <<storeVars, files, detectVars, active_sessions, session_data,
                   client_id, ws_id, peer, to_send, inbox, outbox, turns, life>>

\* lines 218-239: the response's speech came back
Synthesized(c, ttsOutcomes) ==
    /\ pc[c] = "tts"
    /\ \E o \in ttsOutcomes :
        frame' = [frame EXCEPT
            ![c].tts_language = SynthesisLanguage(session_data[c]),
            ![c].audio_base64 =
                b64encode(generate_speech_audio(frame[c].response_text,
                                                SynthesisLanguage(session_data[c]), o))]
    /\ pc' = [pc EXCEPT ![c] = "resp_send"]
    /\ UNCHANGED <<storeVars, files, detectVars, active_sessions, session_data,
                   client_id, ws_id, peer, to_send, inbox, outbox, turns, life>>

\* lines 242-253: the response went out and the history is updated, or the
\* send raised
ResponseSent(c) ==
    /\ pc[c] = "resp_send"
    /\ IF peer[c] = "open"
       THEN /\ outbox' = [outbox EXCEPT ![c] =
                    Append(@, [type |-> "response", text |-> frame[c].response_text,
                               audio |-> frame[c].audio_base64])]
            /\ session_data' = [session_data EXCEPT ![c].chat_history =
                    UpdateHistory(@, frame[c].query_text, frame[c].response_text)]
            /\ turns' = [turns EXCEPT ![c] =
                    Append(@, <<frame[c].query_text, frame[c].response_text>>)]
            /\ frame' = [frame EXCEPT ![c] = BlankFrame]
            /\ pc' = [pc EXCEPT ![c] = "receive"]
            /\ UNCHANGED <<active_sessions, life>>
       ELSE LoopExit(c, "WebSocketDisconnect", 0)
    /\ UNCHANGED <<storeVars, files, detectVars, client_id, ws_id, peer, to_send, inbox>>

\* the handler's task is cancelled while it is suspended in an await (the
\* server shuts down): CancelledError is raised there. It is no Exception, so
\* no except clause takes it; every finally on the way out runs. Before the
\* loop's try nothing is cleaned up. In the await of the transcription the
\* finally of lines 182-187 removes the scratch file, while the worker thread,
\* which cannot be cancelled, goes on transcribing.
Cancelled(c) ==
    /\ Live(c)
    /\ IF pc[c] \in {"accept", "cfg_send", "cfg_close", "greet_tts", "greet_send"}
       THEN /\ pc' = [pc EXCEPT ![c] = "done"]
            /\ life' = [life EXCEPT ![c].exit = "CancelledError"]
            /\ UNCHANGED <<active_sessions, files>>
       ELSE /\ pc' = [pc EXCEPT ![c] = IF pc[c] = "transcribe" THEN "orphan_transcribe"
                                       ELSE "done"]
            /\ files' = IF pc[c] = "transcribe"
                        THEN Remove(files, frame[c].temp_audio_path) ELSE files
            /\ active_sessions' = LoopExitRegistry(active_sessions, c, "CancelledError")
            /\ life' = [life EXCEPT ![c].exit = "CancelledError",
                                    ![c].removals =
                                        IF c \in DOMAIN active_sessions THEN @ + 1 ELSE @]
    /\ pc[c] # "orphan_transcribe"
    /\ UNCHANGED <<storeVars, detectVars, session_data, client_id, ws_id, peer, to_send,
                   inbox, frame, outbox, turns>>

\* the worker thread of a cancelled handler comes to the end of
\* transcribe_audio; nobody awaits its result
WorkerFinished(c) ==
    /\ pc[c] = "orphan_transcribe"
    /\ pc' = [pc EXCEPT ![c] = "done"]
    /\ UNCHANGED <<storeVars, files, detectVars, active_sessions, session_data, client_id,
                   ws_id, peer, to_send, inbox, frame, outbox, turns, life>>

\* POST /ingest/ (http_ingest_data): served in one piece, it never awaits
Ingest(clients, sources, commits) ==
    /\ ingest_left > 0
    /\ ingest_left' = ingest_left - 1
    /\ \E client \in clients, source_path \in sources, commit \in commits :
        IF ~isdir(source_path)
        THEN /\ http_response' = 400
             /\ ingest_call' = NotCalled
             /\ UNCHANGED <<collections, ingested>>
        ELSE LET r == load_and_embed_documents(collections, client, source_path, commit)
             IN  /\ collections' = r.store
                 /\ ingested' = [ingested EXCEPT ![client] = @ \cup SeqToSet(r.added)]
                 /\ http_response' = IF r.success THEN 200 ELSE 500
                 /\ ingest_call' = IngestCall(source_path, commit)
    /\ UNCHANGED <<files, detectVars, connVars>>


(***************************************************************************)
(* The Choice handler (choice-bot-backend app/main.py, websocket_endpoint). *)
(* Its calls of create_rag_chain, transcribe_audio, process_query and       *)
(* generate_speech_audio are plain calls: they return within the step that  *)
(* makes them, and the handler is suspended only in accept, send_json,      *)
(* close and receive_json.                                                  *)
(***************************************************************************)
choice_initial_greeting == <<"Hello! My name is CHOICE, how can I assist you today?">>

\* the names main.py binds at module level (imports, app, the two functions)
ChoiceGlobals ==
    {"uvicorn", "os", "re", "FastAPI", "WebSocket", "WebSocketDisconnect", "UploadFile",
     "File", "Form", "HTTPException", "CORSMiddleware", "StaticFiles", "Dict", "Any",
     "load_dotenv", "rag_service", "audio_service", "vector_store", "app",
     "detect_user_name", "http_ingest_data", "websocket_endpoint"}

\* reading a global name of main.py raises NameError unless it is bound
NameError(name) == name \notin ChoiceGlobals

\* choice-bot-backend process_query: language_map.get(language, "English")
language_instruction(language) ==
    IF language = "hi" THEN "Hindi" ELSE "English"

\* process_query: chain_input, with language_instruction taken from the session
ChainInput(sd, query) ==
    [question |-> query, chat_history |-> sd.chat_history, user_name |-> sd.user_name,
     language_instruction |-> language_instruction(sd.language)]

\* rag_chain.invoke(chain_input): the generated text (a black box, kept as a
\* function of the language instruction and the question), or an exception
ChainInvoke(chain_input, outcome) ==
    IF outcome = "raise" THEN Raised
    ELSE <<"answer in ", chain_input.language_instruction, " to:">> \o chain_input.question

\* audio_service.generate_speech_audio: the web path of the saved MP3, or ""
\* when gTTS fails
choice_generate_speech_audio(text, language, outcome) ==
    IF outcome = "path" THEN <<"/static_audio/", "response_", language, ".mp3">> ELSE <<>>

\* the type of the acknowledgement of a language switch (line 122)
ChoiceAckType == " status"

\* lines 85-101: accept returned; create_rag_chain, the session dict and its
\* registration under a module-level name
ChoiceAcceptDone(c, opens) ==
    /\ pc[c] = "accept"
    /\ \E open \in opens :
        LET rag_chain == create_rag_chain(collections, client_id[c], open)
        IN  IF rag_chain = ValueError
            THEN /\ pc' = [pc EXCEPT ![c] = "cfg_send"]
                 /\ life' = [life EXCEPT ![c].built = @ + 1, ![c].config_error = TRUE]
                 /\ UNCHANGED <<session_data, active_sessions>>
            ELSE /\ session_data' = Upd(session_data, c, NewSession(rag_chain))
                 /\ IF NameError("active_sessions")
                    THEN \* line 96 raises NameError, `except ValueError` lets it pass
                         /\ pc' = [pc EXCEPT ![c] = "done"]
                         /\ life' = [life EXCEPT ![c].built = @ + 1,
                                                 ![c].exit = "NameError"]
                         /\ UNCHANGED active_sessions
                    ELSE /\ active_sessions' = Upd(active_sessions, c, <<"session of", c>>)
                         /\ pc' = [pc EXCEPT ![c] = "choice_greet_send"]
                         /\ life' = [life EXCEPT ![c].built = @ + 1,
                                                 ![c].inserts = @ + 1]
    /\ UNCHANGED <<storeVars, files, detectVars, client_id, ws_id, peer, to_send, inbox,
                   frame, outbox, turns>>

\* lines 188-194: the loop's try ends with exception exc
ChoiceLoopExit(c, exc) ==
    /\ pc' = [pc EXCEPT ![c] = "done"]
    /\ active_sessions' = Remove(active_sessions, c)
    /\ life' = [life EXCEPT ![c].exit = exc,
                            ![c].removals = IF c \in DOMAIN active_sessions THEN @ + 1 ELSE @]

\* lines 117-139: receive_json returned `data`; dispatch on data["type"]
ChoiceReceive(c, msgs, transcripts) ==
    /\ pc[c] = "choice_receive"
    /\ peer[c] = "open"
    /\ to_send[c] > 0
    /\ to_send' = [to_send EXCEPT ![c] = @ - 1]
    /\ \E data \in msgs :
        /\ inbox' = [inbox EXCEPT ![c] = Append(@, data)]
        /\ IF "type" \notin DOMAIN data
           THEN \* data["type"]: KeyError
                /\ ChoiceLoopExit(c, "Exception")
                /\ UNCHANGED <<session_data, frame>>
           ELSE IF data.type = "language_switch"
           THEN IF "language" \in DOMAIN data
                THEN /\ session_data' = [session_data EXCEPT ![c].language = data.language]
                     /\ frame' = [frame EXCEPT ![c].response_text =
                                       <<"Language set to ", data.language>>]
                     /\ pc' = [pc EXCEPT ![c] = "choice_status_send"]
                     /\ UNCHANGED <<active_sessions, life>>
                ELSE /\ ChoiceLoopExit(c, "Exception")
                     /\ UNCHANGED <<session_data, frame>>
           ELSE IF data.type = "text_query"
           THEN IF "text" \in DOMAIN data
                THEN \* lines 126-127: query_text is assigned and the loop goes round
                     /\ frame' = [frame EXCEPT ![c].query_text = data.text]
                     /\ UNCHANGED <<pc, session_data, active_sessions, life>>
                ELSE /\ ChoiceLoopExit(c, "Exception")
                     /\ UNCHANGED <<session_data, frame>>
           ELSE IF data.type = "audio_query"
           THEN IF "audio_data" \in DOMAIN data
                     /\ b64decode(data.audio_data) # <<"binascii.Error">>
                THEN \* lines 132-139: the scratch file is written, transcribed
                     \* and removed before the handler is suspended again
                     /\ \E query_text \in transcripts :
                            frame' = [frame EXCEPT ![c].query_text = query_text,
                                                   ![c].temp_audio_path =
                                                        TempAudioPath(ws_id[c])]
                     /\ pc' = [pc EXCEPT ![c] = "choice_echo_send"]
                     /\ UNCHANGED <<session_data, active_sessions, life>>
                ELSE /\ ChoiceLoopExit(c, "Exception")
                     /\ UNCHANGED <<session_data, frame>>
           ELSE \* no branch matches: the loop goes round
                UNCHANGED <<pc, session_data, frame, active_sessions, life>>
    /\ UNCHANGED <<storeVars, files, detectVars, client_id, ws_id, peer, outbox, turns>>

\* line 117 raises WebSocketDisconnect: the client is gone
ChoiceReceiveDisconnect(c) ==
    /\ pc[c] = "choice_receive"
    /\ peer[c] = "gone"
    /\ ChoiceLoopExit(c, "WebSocketDisconnect")
    /\ UNCHANGED <<storeVars, files, detectVars, session_data, client_id, ws_id, peer,
                   to_send, inbox, frame, outbox, turns>>

\* line 122: the acknowledgement of a language switch went out
ChoiceStatusSent(c) ==
    /\ pc[c] = "choice_status_send"
    /\ IF peer[c] = "open"
       THEN /\ outbox' = [outbox EXCEPT ![c] =
                    Append(@, [type |-> ChoiceAckType, text |-> frame[c].response_text,
                               audio |-> None])]
            /\ pc' = [pc EXCEPT ![c] = "choice_receive"]
            /\ UNCHANGED <<active_sessions, life>>
       ELSE /\ ChoiceLoopExit(c, "WebSocketDisconnect")
            /\ UNCHANGED outbox
    /\ UNCHANGED <<storeVars, files, detectVars, session_data, client_id, ws_id, peer,
                   to_send, inbox, frame, turns>>

\* lines 142-172: the echo of the transcript went out; name detection,
\* process_query and the synthesis of the response
ChoiceEchoSent(c, chainOutcomes, ttsOutcomes) ==
    /\ pc[c] = "choice_echo_send"
    /\ IF peer[c] = "open"
       THEN /\ outbox' = [outbox EXCEPT ![c] =
                    Append(@, [type |-> "user_message", text |-> frame[c].query_text,
                               audio |-> None])]
            /\ session_data' = [session_data EXCEPT ![c] =
                    Personalize(@, frame[c].query_text)]
            /\ \E o \in chainOutcomes, t \in ttsOutcomes :
                LET response_text ==
                        ChainInvoke(ChainInput(session_data'[c], frame[c].query_text), o)
                IN  IF response_text = Raised
                    THEN /\ ChoiceLoopExit(c, "Exception")
                         /\ UNCHANGED frame
                    ELSE /\ frame' = [frame EXCEPT
                                ![c].response_text = response_text,
                                ![c].audio_base64 =
                                    choice_generate_speech_audio(response_text,
                                        session_data[c].language, t)]
                         /\ pc' = [pc EXCEPT ![c] = "choice_resp_send"]
                         /\ UNCHANGED <<active_sessions, life>>
       ELSE /\ ChoiceLoopExit(c, "WebSocketDisconnect")
            /\ UNCHANGED <<outbox, session_data, frame>>
    /\ UNCHANGED <<storeVars, files, detectVars, client_id, ws_id, peer, to_send, inbox,
                   turns>>

\* lines 175-186: the response went out and the history is updated, or the
\* send raised
ChoiceResponseSent(c) ==
    /\ pc[c] = "choice_resp_send"
    /\ IF peer[c] = "open"
       THEN /\ outbox' = [outbox EXCEPT ![c] =
                    Append(@, [type |-> "response", text |-> frame[c].response_text,
                               audio |-> frame[c].audio_base64])]
            /\ session_data' = [session_data EXCEPT ![c].chat_history =
                    UpdateHistory(@, frame[c].query_text, frame[c].response_text)]
            /\ turns' = [turns EXCEPT ![c] =
                    Append(@, <<frame[c].query_text, frame[c].response_text>>)]
            /\ pc' = [pc EXCEPT ![c] = "choice_receive"]
            /\ UNCHANGED <<active_sessions, life>>
       ELSE /\ ChoiceLoopExit(c, "WebSocketDisconnect")
            /\ UNCHANGED <<outbox, session_data, turns>>
    /\ UNCHANGED <<storeVars, files, detectVars, client_id, ws_id, peer, to_send, inbox,
                   frame>>


(***************************************************************************)
(* Inputs of the model.                                                     *)
(***************************************************************************)
TxtHours == <<"h","o","u","r","s","?">>
TxtMyNameIsBob == <<"m","y"," ","n","a","m","e"," ","i","s"," ","b","o","b">>
TxtMyNameIsSam == <<" ","M","y"," ","n","a","m","e"," ","i","s"," ","S","A","M"," ">>
TxtIAmAlex == <<"I"," ","a","m"," ","A","l","e","x">>
TxtImSam == <<"I","'","m"," ","S","a","m">>

TextQuery(text) == [type |-> "text_query", text |-> text]

Opens == {"ok", "raise"}
TtsOutcomes == {"bytes", "empty"}
RetrievalOutcomes == {"ok", "raise"}
GenOutcomes == {"text", "raise", "empty"}
Commits == {"ok", "raise_early", "raise_late"}

\* the messages a client sends
TextMessages == {TextQuery(TxtHours), TextQuery(JsonNumber)}
Messages ==
    { TextQuery(TxtHours),
      TextQuery(JsonNumber),
      [type |-> "text_query"],
      [type |-> "language_switch", language |-> "hi"],
      [type |-> "language_switch"],
      [type |-> "audio_query", audio_data |-> AudioOk],
      [type |-> "audio_query", audio_data |-> AudioBad],
      [type |-> "audio_query"],
      [type |-> "ping"],
      [text |-> TxtHours] }
Transcripts == {TxtHours, WhisperNotLoaded}
\* what awaiting the transcription can end in: a text, or an exception
TranscriptionOutcomes == Transcripts \cup {Raised}

(***************************************************************************)
(* Spec: two connections of either tenant and ingestion for either tenant,  *)
(* interleaved; text queries only.                                          *)
(***************************************************************************)
Init ==
    /\ StoreInit
    /\ HandlerInit([c \in Conns |-> MaxMsgs])
    /\ DetectIdle

Next ==
    \/ Ingest(Tenants, {"dirA", "dirB"}, {"ok"})
    \/ \E c \in Conns :
        \/ Connect(c)
        \/ ClientDisconnect(c)
        \/ AcceptDone(c, {"ok"})
        \/ CfgErrorSent(c)
        \/ CfgClosed(c)
        \/ GreetingSynthesized(c, {"bytes"})
        \/ GreetingSent(c)
        \/ ReceiveDisconnect(c)
        \/ Receive(c, TextMessages, {"ok"})
        \/ Retrieved(c, {"ok"})
        \/ Generated(c, {"text"})
        \/ Synthesized(c, {"bytes"})
        \/ ResponseSent(c)

Spec == Init /\ [][Next]_vars

(***************************************************************************)
(* SpecProtocol: one connection, every kind of message and every outcome    *)
(* of the collaborators.                                                    *)
(***************************************************************************)
ProtocolInit ==
    /\ StoreInit
    /\ HandlerInit([c \in Conns |-> IF c = "ws1" THEN MaxProtocolMsgs ELSE 0])
    /\ DetectIdle

ProtocolNext ==
    \/ Ingest({"A"}, {"dirA", "dirBlank"}, {"ok", "raise_late"})
    \/ \E c \in {"ws1"} :
        \/ Connect(c)
        \/ ClientDisconnect(c)
        \/ AcceptDone(c, Opens)
        \/ CfgErrorSent(c)
        \/ CfgClosed(c)
        \/ GreetingSynthesized(c, TtsOutcomes)
        \/ GreetingSent(c)
        \/ ReceiveDisconnect(c)
        \/ Receive(c, Messages, Opens)
        \/ StatusSent(c)
        \/ ErrorSent(c)
        \/ Transcribed(c, TranscriptionOutcomes)
        \/ EchoSent(c, Opens)
        \/ Retrieved(c, RetrievalOutcomes)
        \/ Generated(c, GenOutcomes)
        \/ Synthesized(c, TtsOutcomes)
        \/ ResponseSent(c)

SpecProtocol == ProtocolInit /\ [][ProtocolNext]_vars


(***************************************************************************)
(* SpecTurn: one connection sending text queries while documents are        *)
(* ingested for its tenant, with every outcome of the store, the generation *)
(* backend and the speech synthesis.                                        *)
(***************************************************************************)
TurnInit ==
    /\ StoreInit
    /\ HandlerInit([c \in Conns |-> IF c = "ws1" THEN MaxTurnMsgs ELSE 0])
    /\ DetectIdle

TurnNext ==
    \/ Ingest({"A"}, {"dirA", "dirBlank"}, {"ok", "raise_late"})
    \/ \E c \in {"ws1"} :
        \/ Connect(c)
        \/ ClientDisconnect(c)
        \/ AcceptDone(c, Opens)
        \/ CfgErrorSent(c)
        \/ CfgClosed(c)
        \/ GreetingSynthesized(c, {"bytes"})
        \/ GreetingSent(c)
        \/ ReceiveDisconnect(c)
        \/ Receive(c, {TextQuery(TxtHours)}, Opens)
        \/ Retrieved(c, RetrievalOutcomes)
        \/ Generated(c, GenOutcomes)
        \/ Synthesized(c, TtsOutcomes)
        \/ ResponseSent(c)

SpecTurn == TurnInit /\ [][TurnNext]_vars


(***************************************************************************)
(* SpecSession: one long session of text queries that introduce names, for  *)
(* a tenant whose collection was ingested before.                           *)
(***************************************************************************)
SessionMessages ==
    {TextQuery(t) : t \in {TxtMyNameIsBob, TxtMyNameIsSam, TxtIAmAlex, TxtImSam}}

SessionInit ==
    /\ collections = [n \in {CollectionName("A")} |-> <<"a1">>]
    /\ ingested = [t \in Tenants |-> IF t = "A" THEN {"a1"} ELSE {}]
    /\ ingest_left = 0
    /\ http_response = 200
    /\ ingest_call = [called |-> TRUE, documents |-> 1, commit |-> "ok"]
    /\ HandlerInit([c \in Conns |-> IF c = "ws1" THEN MaxSessionMsgs ELSE 0])
    /\ DetectIdle

SessionNext ==
    \E c \in {"ws1"} :
        \/ Connect(c)
        \/ ClientDisconnect(c)
        \/ AcceptDone(c, {"ok"})
        \/ GreetingSynthesized(c, {"bytes"})
        \/ GreetingSent(c)
        \/ ReceiveDisconnect(c)
        \/ Receive(c, SessionMessages, {"ok"})
        \/ Retrieved(c, {"ok"})
        \/ Generated(c, {"text"})
        \/ Synthesized(c, {"bytes"})
        \/ ResponseSent(c)

SpecSession == SessionInit /\ [][SessionNext]_vars

(***************************************************************************)
(* SpecDetect: detect_user_name applied to a text.                          *)
(***************************************************************************)
DetectPrefixes == { <<>>,
      <<"h","i",","," ">>,
      <<"x">> }
DetectPhrases == { <<"m","y"," ","n","a","m","e"," ","i","s">>,
      <<"M","y"," ","N","a","m","e"," ","I","s">>,
      <<"i"," ","a","m">>,
      <<"I"," ","A","M">>,
      <<"i","'","m">>,
      <<"I","'","M">>,
      <<"i","m">>,
      <<"m","y"," ","n","a","m","e">> }
DetectSeparators == { <<>>,
      <<" ">>,
      <<" "," ">>,
      <<"\t">> }
DetectNames == { <<>>,
      <<"b","o","b">>,
      <<"a","L","E","X">>,
      <<"s","4","m">>,
      <<"4","2">> }
DetectSuffixes == { <<>>,
      <<" ","o","k">>,
      <<","," ","I"," ","a","m"," ","Z","e","d">>,
      <<"."," ","M","y"," ","n","a","m","e"," ","i","s"," ","A","l">> }
DetectTexts ==
    { Cat(<<a, b, c, d, e>>) : a \in DetectPrefixes, b \in DetectPhrases,
                               c \in DetectSeparators, d \in DetectNames,
                               e \in DetectSuffixes }

DetectInit ==
    /\ StoreInit
    /\ HandlerInit([c \in Conns |-> 0])
    /\ text_in \in DetectTexts
    /\ name_out = <<"unset">>

Detect ==
    /\ name_out = <<"unset">>
    /\ name_out' = detect_user_name(text_in)
    /\ UNCHANGED <<text_in, storeVars, files, connVars>>

SpecDetect == DetectInit /\ [][Detect]_vars


(***************************************************************************)
(* SpecDispatch: one connection of a tenant whose collection was ingested   *)
(* before, sending every kind of message; the collaborators succeed.        *)
(***************************************************************************)
DispatchMessages ==
    Messages \cup {[type |-> "language_switch", language |-> "fr"],
                   [type |-> "language_switch", language |-> "en"]}

DispatchInit ==
    /\ collections = [n \in {CollectionName("A")} |-> <<"a1">>]
    /\ ingested = [t \in Tenants |-> IF t = "A" THEN {"a1"} ELSE {}]
    /\ ingest_left = 0
    /\ http_response = 200
    /\ ingest_call = [called |-> TRUE, documents |-> 1, commit |-> "ok"]
    /\ HandlerInit([c \in Conns |-> IF c = "ws1" THEN MaxDispatchMsgs ELSE 0])
    /\ DetectIdle

DispatchNext ==
    \E c \in {"ws1"} :
        \/ Connect(c)
        \/ ClientDisconnect(c)
        \/ AcceptDone(c, {"ok"})
        \/ GreetingSynthesized(c, {"bytes"})
        \/ GreetingSent(c)
        \/ ReceiveDisconnect(c)
        \/ Receive(c, DispatchMessages, {"ok"})
        \/ StatusSent(c)
        \/ ErrorSent(c)
        \/ Transcribed(c, TranscriptionOutcomes)
        \/ EchoSent(c, {"ok"})
        \/ Retrieved(c, {"ok"})
        \/ Generated(c, {"text"})
        \/ Synthesized(c, {"bytes"})
        \/ ResponseSent(c)

SpecDispatch == DispatchInit /\ [][DispatchNext]_vars


(***************************************************************************)
(* SpecConcurrent: two connections on the one event loop. A handler runs    *)
(* only while no other handler holds the loop's thread in a call that was   *)
(* not handed to a worker thread or awaited natively.                       *)
(***************************************************************************)
\* the awaited calls of a turn, by the place where the handler waits:
\* transcription, retrieval, generation, synthesis
PendingCalls == {"transcribe", "pq_retrieve", "pq_generate", "tts"}

\* with the synthesis of the greeting, every place where a call is awaited
AwaitedCalls == PendingCalls \cup {"greet_tts"}

\* asyncio.to_thread(transcribe_audio), asyncio.to_thread(get_relevant_documents),
\* await generate_content_async, asyncio.to_thread(generate_gtts_bytes): each
\* call gives the event loop back while it runs
OffloadedButTranscription(call) == call # "transcribe"
Offloaded(call) == TRUE

\* no other handler blocks the event loop
LoopFree(c) ==
    \A d \in Conns \ {c} : pc[d] \in AwaitedCalls => Offloaded(pc[d])

\* the next step of handler c, whatever the event loop does
HandlerStep(c) ==
    \/ AcceptDone(c, {"ok"})
    \/ CfgErrorSent(c)
    \/ CfgClosed(c)
    \/ GreetingSynthesized(c, {"bytes"})
    \/ GreetingSent(c)
    \/ ReceiveDisconnect(c)
    \/ Receive(c, {TextQuery(TxtHours), [type |-> "audio_query", audio_data |-> AudioOk]},
               {"ok"})
    \/ Transcribed(c, {TxtHours})
    \/ EchoSent(c, {"ok"})
    \/ Retrieved(c, {"ok"})
    \/ Generated(c, {"text"})
    \/ Synthesized(c, {"bytes"})
    \/ ResponseSent(c)

\* handler c is scheduled
Scheduled(c) == LoopFree(c) /\ HandlerStep(c)

ConcurrentInit ==
    /\ collections = [n \in {CollectionName("A")} |-> <<"a1">>]
    /\ ingested = [t \in Tenants |-> IF t = "A" THEN {"a1"} ELSE {}]
    /\ ingest_left = 0
    /\ http_response = 200
    /\ ingest_call = [called |-> TRUE, documents |-> 1, commit |-> "ok"]
    /\ HandlerInit([c \in Conns |-> MaxConcurrentMsgs])
    /\ DetectIdle

ConcurrentNext ==
    \E c \in Conns :
        \/ Connect(c)
        \/ ClientDisconnect(c)
        \/ Scheduled(c)

SpecConcurrent == ConcurrentInit /\ [][ConcurrentNext]_vars


(***************************************************************************)
(* SpecShared: two connections, of the same tenant or not, that switch the  *)
(* language, give a name and ask, their handlers interleaved at the awaits. *)
(***************************************************************************)
SharedMessages ==
    {[type |-> "language_switch", language |-> "hi"],
     TextQuery(TxtMyNameIsBob),
     TextQuery(TxtHours)}

SharedInit ==
    /\ collections = [n \in {CollectionName("A")} |-> <<"a1">>]
    /\ ingested = [t \in Tenants |-> IF t = "A" THEN {"a1"} ELSE {}]
    /\ ingest_left = 0
    /\ http_response = 200
    /\ ingest_call = [called |-> TRUE, documents |-> 1, commit |-> "ok"]
    /\ HandlerInit([c \in Conns |-> MaxSharedMsgs])
    /\ DetectIdle

SharedNext ==
    \E c \in Conns :
        \/ Connect(c)
        \/ ClientDisconnect(c)
        \/ AcceptDone(c, {"ok"})
        \/ CfgErrorSent(c)
        \/ CfgClosed(c)
        \/ GreetingSynthesized(c, {"bytes"})
        \/ GreetingSent(c)
        \/ ReceiveDisconnect(c)
        \/ Receive(c, SharedMessages, {"ok"})
        \/ StatusSent(c)
        \/ Retrieved(c, {"ok"})
        \/ Generated(c, {"text"})
        \/ Synthesized(c, {"bytes"})
        \/ ResponseSent(c)

SpecShared == SharedInit /\ [][SharedNext]_vars


(***************************************************************************)
(* SpecCancel: one connection sending text and audio queries, whose handler *)
(* may be cancelled at any await.                                           *)
(***************************************************************************)
CancelMessages == {TextQuery(TxtHours), [type |-> "audio_query", audio_data |-> AudioOk]}

CancelInit ==
    /\ collections = [n \in {CollectionName("A")} |-> <<"a1">>]
    /\ ingested = [t \in Tenants |-> IF t = "A" THEN {"a1"} ELSE {}]
    /\ ingest_left = 0
    /\ http_response = 200
    /\ ingest_call = [called |-> TRUE, documents |-> 1, commit |-> "ok"]
    /\ HandlerInit([c \in Conns |-> IF c = "ws1" THEN MaxCancelMsgs ELSE 0])
    /\ DetectIdle

CancelNext ==
    \E c \in {"ws1"} :
        \/ Connect(c)
        \/ ClientDisconnect(c)
        \/ Cancelled(c)
        \/ WorkerFinished(c)
        \/ AcceptDone(c, {"ok"})
        \/ CfgErrorSent(c)
        \/ CfgClosed(c)
        \/ GreetingSynthesized(c, {"bytes"})
        \/ GreetingSent(c)
        \/ ReceiveDisconnect(c)
        \/ Receive(c, CancelMessages, {"ok"})
        \/ Transcribed(c, TranscriptionOutcomes)
        \/ EchoSent(c, {"ok"})
        \/ Retrieved(c, {"ok"})
        \/ Generated(c, {"text"})
        \/ Synthesized(c, {"bytes"})
        \/ ResponseSent(c)

SpecCancel == CancelInit /\ [][CancelNext]_vars


(***************************************************************************)
(* SpecIngest: requests to POST /ingest/ for every kind of source path and  *)
(* every way the commit to the index may end.                               *)
(***************************************************************************)
IngestInit ==
    /\ collections = <<>>
    /\ ingested = [t \in Tenants |-> {}]
    /\ ingest_left = MaxIngestRequests
    /\ http_response = 0
    /\ ingest_call = NotCalled
    /\ HandlerInit([c \in Conns |-> 0])
    /\ DetectIdle

IngestNext == Ingest(Tenants, SourcePaths, Commits)

SpecIngest == IngestInit /\ [][IngestNext]_vars


(***************************************************************************)
(* SpecChoice: the Choice handler from the handshake on, two connections    *)
(* of either tenant and ingestion for either tenant.                        *)
(***************************************************************************)
ChoiceInit ==
    /\ StoreInit
    /\ HandlerInit([c \in Conns |-> 0])
    /\ DetectIdle

ChoiceNext ==
    \/ Ingest(Tenants, {"dirA", "dirB"}, {"ok"})
    \/ \E c \in Conns :
        \/ Connect(c)
        \/ ClientDisconnect(c)
        \/ ChoiceAcceptDone(c, Opens)
        \/ CfgErrorSent(c)
        \/ CfgClosed(c)

SpecChoice == ChoiceInit /\ [][ChoiceNext]_vars


(***************************************************************************)
(* SpecChoiceLoop: the receive loop of the Choice handler (lines 115-194)   *)
(* taken by itself, from the state lines 85-112 are written to leave: the   *)
(* session of a tenant with ingested data is registered and the greeting    *)
(* was sent.                                                                *)
(***************************************************************************)
ChoiceMessages ==
    { TextQuery(TxtHours),
      TextQuery(TxtMyNameIsSam),
      [type |-> "text_query"],
      [type |-> "language_switch", language |-> "hi"],
      [type |-> "audio_query", audio_data |-> AudioOk],
      [type |-> "audio_query", audio_data |-> AudioBad],
      [type |-> "ping"],
      [text |-> TxtHours] }

ChoiceTtsOutcomes == {"path", "empty"}

ChoiceLoopInit ==
    /\ collections = [n \in {CollectionName("A")} |-> <<"a1">>]
    /\ ingested = [t \in Tenants |-> IF t = "A" THEN {"a1"} ELSE {}]
    /\ ingest_left = 0
    /\ http_response = 200
    /\ ingest_call = [called |-> TRUE, documents |-> 1, commit |-> "ok"]
    /\ files = <<>>
    /\ active_sessions = [c \in {"ws1"} |-> <<"session of", c>>]
    /\ session_data = [c \in {"ws1"} |->
                          NewSession(create_rag_chain(collections, "A", "ok"))]
    /\ pc = [c \in Conns |-> IF c = "ws1" THEN "choice_receive" ELSE "idle"]
    /\ client_id = [c \in Conns |-> "A"]
    /\ ws_id = [c \in Conns |-> "id1"]
    /\ peer = [c \in Conns |-> "open"]
    /\ to_send = [c \in Conns |-> IF c = "ws1" THEN MaxChoiceMsgs ELSE 0]
    /\ inbox = [c \in Conns |-> <<>>]
    /\ frame = [c \in Conns |-> BlankFrame]
    /\ outbox = [c \in Conns |->
                    IF c = "ws1"
                    THEN << [type |-> "response", text |-> choice_initial_greeting,
                             audio |-> choice_generate_speech_audio(
                                          choice_initial_greeting, "en", "path")] >>
                    ELSE <<>>]
    /\ turns = [c \in Conns |-> <<>>]
    /\ life = [c \in Conns |->
                  IF c = "ws1"
                  THEN [NewLife EXCEPT !.inserts = 1, !.built = 1, !.reached_loop = TRUE]
                  ELSE NewLife]
    /\ DetectIdle

ChoiceLoopNext ==
    \E c \in {"ws1"} :
        \/ ClientDisconnect(c)
        \/ ChoiceReceiveDisconnect(c)
        \/ ChoiceReceive(c, ChoiceMessages, Transcripts)
        \/ ChoiceStatusSent(c)
        \/ ChoiceEchoSent(c, {"text", "raise"}, ChoiceTtsOutcomes)
        \/ ChoiceResponseSent(c)

SpecChoiceLoop == ChoiceLoopInit /\ [][ChoiceLoopNext]_vars


(***************************************************************************)
(* Properties.                                                              *)
(***************************************************************************)
Registered(c) == c \in DOMAIN active_sessions

\* C1: a connection whose handler reached the receive loop has no entry in
\* active_sessions once the handler has returned, whether the loop ended by
\* WebSocketDisconnect or by any other exception; its entry was removed once.
C1_CleanupAfterLoop ==
    \A c \in Conns :
        pc[c] = "done" /\ life[c].reached_loop
            => /\ ~Registered(c)
               /\ life[c].inserts = 1
               /\ life[c].removals = 1

\* two handlers that reached the loop have returned, one on a disconnect and
\* one on another exception
C1_Witness ==
    \E c, d \in Conns :
        /\ pc[c] = "done" /\ life[c].reached_loop /\ life[c].exit = "Exception"
        /\ pc[d] = "done" /\ life[d].reached_loop
        /\ life[d].exit = "WebSocketDisconnect"

\* C2: every session inserted into active_sessions is removed exactly once on
\* every exit of the handler after the insertion, a failing greeting send
\* included: a returned handler has no entry left.
C2_NoSessionOutlivesHandler ==
    \A c \in Conns :
        pc[c] = "done" => ~Registered(c) /\ life[c].removals = life[c].inserts

\* C3: when create_rag_chain raises ValueError the handler registers no
\* session, sends no greeting and reads no inbound message; it sends the one
\* `error` message, closes with code 1008 and returns (unless the client has
\* gone before, when the send raises and ends the handler).
C3_ConfigErrorRejects ==
    \A c \in Conns :
        life[c].config_error
            => /\ pc[c] \in {"cfg_send", "cfg_close", "done"}
               /\ ~Registered(c)
               /\ c \notin DOMAIN session_data
               /\ life[c].inserts = 0
               /\ life[c].received = 0
               /\ turns[c] = <<>>
               /\ Len(outbox[c]) <= 1
               /\ \A i \in 1..Len(outbox[c]) :
                    outbox[c][i] = [type |-> "error",
                                    text |-> ConfigErrorText(client_id[c]),
                                    audio |-> None]
               /\ (pc[c] = "cfg_send") = (Len(outbox[c]) = 0 /\ pc[c] # "done")
               /\ (pc[c] = "done" =>
                     \/ /\ life[c].exit = "returned"
                        /\ Len(outbox[c]) = 1
                        /\ life[c].close_code = PolicyViolation
                     \/ /\ life[c].exit = "escaped"
                        /\ peer[c] = "gone")

\* C3 as stated: every handshake that failed with ValueError ends with the
\* one `error` message sent and the connection closed with code 1008.
C3_ConfigErrorAlwaysCloses ==
    \A c \in Conns :
        life[c].config_error /\ pc[c] = "done"
            => /\ Len(outbox[c]) = 1
               /\ outbox[c][1].type = "error"
               /\ life[c].close_code = 1008
               /\ life[c].exit = "returned"

\* a handshake that failed with ValueError has run to its return
C3_Witness ==
    \E c \in Conns :
        /\ life[c].config_error
        /\ pc[c] = "done"
        /\ life[c].exit = "returned"
        /\ life[c].close_code = PolicyViolation
        /\ Len(outbox[c]) = 1


RECURSIVE Exchanges(_)
\* the (user, query), (assistant, response) entries of a sequence of turns
Exchanges(ts) ==
    IF ts = <<>> THEN <<>>
    ELSE << <<"user", Head(ts)[1]>>, <<"assistant", Head(ts)[2]>> >> \o Exchanges(Tail(ts))

\* C4: the history never holds more than 10 entries; it is the last 10
\* entries of all exchanges so far, and after N > 5 completed turns it has
\* exactly 10 entries, those of the 5 most recent turns in order.
C4_HistoryBound ==
    \A c \in DOMAIN session_data :
        LET history == session_data[c].chat_history
            N == Len(turns[c])
        IN  /\ Len(history) <= 10
            /\ history = LastN(Exchanges(turns[c]), 10)
            /\ (N > 5 => /\ Len(history) = 10
                         /\ history = Exchanges(SubSeq(turns[c], N - 4, N)))

\* a session has completed more than 5 turns and the turn that was dropped
\* differs from the latest one
C4_Witness ==
    \E c \in DOMAIN session_data :
        /\ Len(turns[c]) > 5
        /\ turns[c][1] # turns[c][Len(turns[c])]
        /\ pc[c] = "receive"

\* C5: once user_name is set it is never cleared nor changed; it is set only
\* from unset, to the name detected in the current turn's query text.
C5_NameFirstWriteWins ==
    [][\A c \in DOMAIN session_data :
          /\ c \in DOMAIN session_data'
          /\ (session_data[c].user_name # None
                => session_data'[c].user_name = session_data[c].user_name)
          /\ (session_data'[c].user_name # session_data[c].user_name
                => session_data'[c].user_name = detect_user_name(frame'[c].query_text))
      ]_vars

TxtBob == <<"B","o","b">>
TxtSam == <<"S","a","m">>
TxtAlex == <<"A","l","e","x">>

\* the name is Bob from the first turn, and a later turn whose text
\* introduces Sam has been completed
C5_Witness ==
    \E c \in DOMAIN session_data :
        /\ session_data[c].user_name = TxtBob
        /\ Len(turns[c]) >= 2
        /\ turns[c][1][1] = TxtMyNameIsBob
        /\ turns[c][2][1] = strip(TxtMyNameIsSam)
        /\ detect_user_name(turns[c][2][1]) = TxtSam

\* C6: in a session whose first query is "I am Alex", followed later by
\* "I'm Sam", user_name is "Alex" after the first turn and stays "Alex".
C6_AlexThenSam ==
    \A c \in DOMAIN session_data :
        (/\ Len(turns[c]) >= 1
         /\ turns[c][1][1] = TxtIAmAlex
         /\ \A i \in 2..Len(turns[c]) : turns[c][i][1] = TxtImSam)
        => session_data[c].user_name = TxtAlex

\* the three patterns tried in order, going on to the next pattern while one
\* does not match: what the claim says detect_user_name returns
RECURSIVE FirstOfThePatterns(_, _)
FirstOfThePatterns(n, text) ==
    IF n > Len(patterns) THEN None
    ELSE LET match == re_search(patterns[n], text)
         IN  IF match # None THEN capitalize(match)
             ELSE FirstOfThePatterns(n + 1, text)

\* C7: detect_user_name returns the capitalized token captured by the first
\* of the three patterns that matches the text, and None only when none of
\* the three matches.
C7_DetectFirstOfThree ==
    name_out # <<"unset">> => name_out = FirstOfThePatterns(1, text_in)


AllIngested == UNION {ingested[t] : t \in Tenants}

\* the passages among the elements of a text
PassagesIn(text) == IF text = None THEN {} ELSE SeqToSet(text) \cap AllIngested

\* C8: every retrieval of a session of tenant A reads the collection
\* client_A only: the passages it returns, and those that reach a prompt or
\* a response of the session, were all ingested for A, whatever was ingested
\* for other tenants in between.
C8_TenantIsolation ==
    \A c \in Conns :
        LET tenant == client_id[c]
        IN  /\ (frame[c].retriever # None
                  => frame[c].retriever = <<"retriever", <<"client_", tenant>> >>)
            /\ SeqToSet(frame[c].docs) \subseteq ingested[tenant]
            /\ SeqToSet(FullPrompt(frame[c].docs, frame[c].query_text).context)
                  \subseteq ingested[tenant]
            /\ PassagesIn(frame[c].response_text) \subseteq ingested[tenant]
            /\ \A i \in 1..Len(turns[c]) :
                  PassagesIn(turns[c][i][2]) \subseteq ingested[tenant]

\* sessions of two tenants have both retrieved passages while each tenant
\* holds passages the other does not
C8_Witness ==
    \E c, d \in Conns :
        /\ client_id[c] = "A" /\ client_id[d] = "B"
        /\ frame[c].docs # <<>> /\ frame[d].docs # <<>>
        /\ ingested["A"] # {} /\ ingested["B"] # {}
        /\ ingested["A"] \cap ingested["B"] = {}

\* C9: when the retriever returns zero passages the generation backend is
\* not invoked in that turn and the response text is the fixed "not found"
\* string.
C9_EmptyRetrievalShortCircuit ==
    \A c \in Conns :
        frame[c].retrieval = "returned" /\ frame[c].docs = <<>>
            => /\ frame[c].generation = "not_called"
               /\ pc[c] \in {"tts", "resp_send", "done"}
               /\ frame[c].response_text =
                    <<"I couldn't find relevant information in the uploaded documents.">>

\* a retrieval returned no passage and the response of that turn is about
\* to be sent
C9_Witness ==
    \E c \in Conns :
        /\ frame[c].retrieval = "returned"
        /\ frame[c].docs = <<>>
        /\ pc[c] = "resp_send"
        /\ peer[c] = "open"

\* the retrieval or the generation call of the current turn failed
TurnFailed(c) ==
    \/ frame[c].retrieval = "raised"
    \/ frame[c].generation \in {"raise", "empty"}

\* C10: when the retrieval or the generation call fails (raises, or returns
\* no text), process_query returns the fixed apology instead of raising; the
\* handler goes on to synthesis and sends it as a `response`, appends the
\* turn to the history, keeps the session registered and waits for the next
\* message (the loop ends there only if the client has gone).
C10_FailureYieldsApology ==
    [][\A c \in Conns :
          /\ (TurnFailed(c)'
                => /\ frame'[c].response_text = ApologyMsg
                   /\ pc'[c] \in {"tts", "resp_send", "done"}
                   /\ (pc'[c] # "done" => c \in DOMAIN active_sessions'))
          /\ (TurnFailed(c) /\ pc[c] = "resp_send" /\ pc'[c] # "resp_send"
                => IF peer[c] = "open"
                   THEN /\ pc'[c] = "receive"
                        /\ c \in DOMAIN active_sessions'
                        /\ outbox'[c] = Append(outbox[c],
                              [type |-> "response", text |-> ApologyMsg,
                               audio |-> frame[c].audio_base64])
                        /\ session_data'[c].chat_history =
                              LastN(session_data[c].chat_history
                                      \o << <<"user", frame[c].query_text>>,
                                            <<"assistant", ApologyMsg>> >>, 10)
                   ELSE pc'[c] = "done")
      ]_vars

\* a turn whose generation or retrieval failed was answered with the apology
\* and the session then completed another turn
C10_Witness ==
    \E c \in Conns :
        /\ Len(turns[c]) = 2
        /\ turns[c][1][2] = ApologyMsg
        /\ turns[c][2][2] # ApologyMsg
        /\ c \in DOMAIN active_sessions
        /\ pc[c] = "receive"


KnownTypes == {"language_switch", "text_query", "audio_query"}

\* the message the handler read last
LastReceived(c) == inbox[c][Len(inbox[c])]

Unsupported(data) == "type" \notin DOMAIN data \/ data.type \notin KnownTypes

\* C11: a message whose type is none of language_switch, text_query and
\* audio_query (or that has no type) is answered with one `error` message;
\* history, user_name and language are unchanged, the session stays
\* registered, no turn is recorded and the handler waits for the next
\* message (the loop ends there only if the client has gone); a text_query
\* that follows is processed as a turn.
C11_UnsupportedTypeIsNonFatal ==
    [][\A c \in Conns :
          /\ (Len(inbox'[c]) > Len(inbox[c]) /\ Unsupported(LastReceived(c)')
                => /\ pc'[c] = "error_send"
                   /\ c \in DOMAIN active_sessions'
                   /\ session_data'[c] = session_data[c]
                   /\ outbox'[c] = outbox[c]
                   /\ turns'[c] = turns[c])
          /\ (pc[c] = "error_send" /\ pc'[c] # "error_send"
                => /\ Unsupported(LastReceived(c))
                   /\ session_data'[c] = session_data[c]
                   /\ turns'[c] = turns[c]
                   /\ IF peer[c] = "open"
                      THEN /\ pc'[c] = "receive"
                           /\ c \in DOMAIN active_sessions'
                           /\ outbox'[c] = Append(outbox[c],
                                 [type |-> "error",
                                  text |-> <<"Unsupported message type.">>,
                                  audio |-> None])
                      ELSE pc'[c] = "done" /\ outbox'[c] = outbox[c])
          /\ ((/\ pc[c] = "receive"
               /\ Len(inbox[c]) > 0 /\ Unsupported(LastReceived(c))
               /\ Len(inbox'[c]) > Len(inbox[c])
               /\ LastReceived(c)' = TextQuery(TxtHours))
                => /\ pc'[c] \in {"pq_retrieve", "tts"}
                   /\ frame'[c].query_text = TxtHours)
      ]_vars

\* a message of an unsupported type was answered with the error and the
\* text_query after it was completed as a turn
C11_Witness ==
    \E c \in Conns :
        /\ Len(inbox[c]) = 2
        /\ Unsupported(inbox[c][1])
        /\ inbox[c][2] = TextQuery(TxtHours)
        /\ Len(outbox[c]) = 3
        /\ outbox[c][2].type = "error"
        /\ outbox[c][3].type = "response"
        /\ turns[c] = << <<TxtHours, <<"answer from:", "a1">> >> >>
        /\ session_data[c].chat_history =
              << <<"user", TxtHours>>, <<"assistant", <<"answer from:", "a1">> >> >>
        /\ pc[c] = "receive"
        /\ c \in DOMAIN active_sessions


\* a message of a known type that lacks a field or carries a bad one
Malformed(data) ==
    \/ /\ HasType(data, "language_switch")
       /\ "language" \notin DOMAIN data
    \/ /\ HasType(data, "audio_query")
       /\ \/ "audio_data" \notin DOMAIN data
          \/ data.audio_data = AudioBad
    \/ /\ HasType(data, "text_query")
       /\ "text" \in DOMAIN data
       /\ ~IsStr(data.text)

\* C12: a malformed message of a known type is recovered locally: the
\* handler stays in its loop with the session registered, and sends an
\* `error` reply.
C12_MalformedIsRecovered ==
    [][\A c \in Conns :
          Len(inbox'[c]) > Len(inbox[c]) /\ Malformed(LastReceived(c)')
              => /\ pc'[c] = "error_send"
                 /\ c \in DOMAIN active_sessions'
      ]_vars


\* a language_switch message that carries a language
IsSwitch(data) == HasType(data, "language_switch") /\ "language" \in DOMAIN data

\* C13: handling a language_switch sets the session language to the
\* message's value and sends exactly one `status` acknowledgement; history
\* and user_name are unchanged, no turn is recorded, and the handler goes
\* from the receive to the acknowledgement and back to the receive without
\* name detection, retrieval, generation or synthesis.
C13_LanguageSwitchFrame ==
    [][\A c \in Conns :
          /\ (Len(inbox'[c]) > Len(inbox[c]) /\ IsSwitch(LastReceived(c)')
                => /\ session_data'[c].language = LastReceived(c)'.language
                   /\ session_data'[c].user_name = session_data[c].user_name
                   /\ session_data'[c].chat_history = session_data[c].chat_history
                   /\ pc'[c] = "status_send"
                   /\ frame'[c].query_text = None
                   /\ frame'[c].retrieval = "none"
                   /\ frame'[c].generation = "not_called"
                   /\ frame'[c].audio_base64 = <<>>
                   /\ outbox'[c] = outbox[c]
                   /\ turns'[c] = turns[c])
          /\ (pc[c] = "status_send" /\ pc'[c] # "status_send"
                => /\ IsSwitch(LastReceived(c))
                   /\ session_data'[c] = session_data[c]
                   /\ turns'[c] = turns[c]
                   /\ IF peer[c] = "open"
                      THEN /\ pc'[c] = "receive"
                           /\ outbox'[c] = Append(outbox[c],
                                 [type |-> "status",
                                  text |-> <<"Language set to ", LastReceived(c).language>>,
                                  audio |-> None])
                      ELSE pc'[c] = "done" /\ outbox'[c] = outbox[c])
      ]_vars

\* a session with a turn in its history has switched to a language outside
\* the mapping and acknowledged it
C13_Witness ==
    \E c \in Conns :
        /\ Len(inbox[c]) = 2
        /\ inbox[c][2] = [type |-> "language_switch", language |-> "fr"]
        /\ session_data[c].language = "fr"
        /\ session_data[c].chat_history # <<>>
        /\ outbox[c][Len(outbox[c])].type = "status"
        /\ Len(turns[c]) = 1
        /\ pc[c] = "receive"


\* C14: on a query turn the generation backend is given the language
\* instruction of the session's language: "Hindi" for "hi", "English" for
\* "en" and for any other code such as "fr".
C14_LanguageInstructionGiven ==
    \A c \in Conns :
        pc[c] = "pq_generate"
            => LET full_prompt == FullPrompt(frame[c].docs, frame[c].query_text)
               IN  /\ "language_instruction" \in DOMAIN full_prompt
                   /\ full_prompt.language_instruction =
                        language_instruction(session_data[c].language)


\* C15: the retriever of a session is constructed exactly once, at the
\* handshake, and every turn runs against the chain stored in the session:
\* no turn looks the retriever up again, so no turn of a registered session
\* can find itself without one.
C15_PipelineBuiltOnce ==
    \A c \in DOMAIN session_data :
        /\ life[c].built = 1
        /\ frame[c].retrieval # "no_retriever"
        /\ (frame[c].retriever # None
              => frame[c].retriever = session_data[c].rag_chain[2])


\* C16: on a turn that reaches generation the prompt handed to the backend
\* holds the system instructions, the context, the session's history and
\* the query: the exchanges of earlier turns are part of the input of a
\* later generation call.
C16_PromptCarriesHistory ==
    \A c \in Conns :
        pc[c] = "pq_generate" /\ session_data[c].chat_history # <<>>
            => LET full_prompt == FullPrompt(frame[c].docs, frame[c].query_text)
               IN  /\ full_prompt.context = frame[c].docs
                   /\ full_prompt.question = frame[c].query_text
                   /\ {"system", "chat_history"} \subseteq DOMAIN full_prompt
                   /\ full_prompt.chat_history = session_data[c].chat_history


IsQuery(data) == HasType(data, "text_query") \/ HasType(data, "audio_query")

\* the types of the replies to one well-formed message
ReplyTypes(data) ==
    IF IsSwitch(data) THEN <<"status">>
    ELSE IF Unsupported(data) THEN <<"error">>
    ELSE IF HasType(data, "text_query") THEN <<"response">>
    ELSE <<"user_message", "response">>

RECURSIVE AllReplyTypes(_)
AllReplyTypes(msgs) ==
    IF msgs = <<>> THEN <<>> ELSE ReplyTypes(Head(msgs)) \o AllReplyTypes(Tail(msgs))

\* every effect of every message read so far has happened: the replies were
\* sent in the order of the messages, each query is a recorded turn, in the
\* order of arrival, and the history holds those turns
Settled(c) ==
    LET queries == SelectSeq(inbox[c], IsQuery)
    IN  /\ frame[c] = BlankFrame
        /\ [i \in 1..Len(outbox[c]) |-> outbox[c][i].type]
              = <<"response">> \o AllReplyTypes(inbox[c])
        /\ Len(turns[c]) = Len(queries)
        /\ \A i \in 1..Len(queries) :
              /\ HasType(queries[i], "text_query") /\ "text" \in DOMAIN queries[i]
                    => turns[c][i][1] = strip(queries[i].text)
              /\ HasType(queries[i], "audio_query") => turns[c][i][1] \in Transcripts
        /\ session_data[c].chat_history = LastN(Exchanges(turns[c]), 10)

\* C17: the handler reads a message only while it waits in receive_json, and
\* it waits there only when every effect of the messages read before is
\* complete (replies sent, history updated): messages are processed in
\* arrival order, one at a time, and the history follows that order.
C17_NoPipelining ==
    [][\A c \in Conns :
          /\ (Len(inbox'[c]) > Len(inbox[c])
                => /\ pc[c] = "receive"
                   /\ Len(inbox'[c]) = Len(inbox[c]) + 1
                   /\ SubSeq(inbox'[c], 1, Len(inbox[c])) = inbox[c]
                   /\ Settled(c))
          /\ (pc'[c] = "receive" => Settled(c)')
      ]_vars

\* a text query, then an audio query have been processed, in that order
C17_Witness ==
    \E c \in Conns :
        /\ Len(inbox[c]) = 2
        /\ HasType(inbox[c][1], "text_query")
        /\ HasType(inbox[c][2], "audio_query")
        /\ Len(turns[c]) = 2
        /\ turns[c][1][1] # turns[c][2][1]
        /\ pc[c] = "receive"
        /\ Settled(c)



\* C18: when a pending call of the current turn finishes after the client
\* has disconnected, its result is discarded: the handler starts no further
\* call with it and attempts no send, it unwinds and the session is removed
\* from the registry.
C18_DisconnectDiscardsPending ==
    [][\A c \in Conns :
          peer[c] = "gone" /\ pc[c] \in PendingCalls /\ pc'[c] # pc[c]
              => /\ pc'[c] = "done"
                 /\ c \notin DOMAIN active_sessions'
                 /\ outbox'[c] = outbox[c]
      ]_vars


IsAudio(data) == HasType(data, "audio_query")

\* the number of messages of type `type` among the first n of seq
RECURSIVE CountType(_, _, _)
CountType(seq, type, n) ==
    IF n = 0 THEN 0
    ELSE CountType(seq, type, n - 1) + (IF seq[n].type = type THEN 1 ELSE 0)

\* C20: for every audio_query handled while the connection stays open
\* exactly one `user_message` with the transcribed text is sent, before name
\* detection, before retrieval and generation and before the `response` of
\* that turn, which answers the echoed text.
C20_EchoBeforeTurn ==
    [][\A c \in Conns :
          \* nothing of the turn happens before the echo
          /\ (pc'[c] \in {"transcribe", "echo_send"}
                => /\ IsAudio(LastReceived(c)')
                   /\ session_data'[c].user_name = session_data[c].user_name
                   /\ frame'[c].retrieval = "none"
                   /\ frame'[c].generation = "not_called"
                   /\ frame'[c].response_text = None
                   /\ outbox'[c] = outbox[c])
          \* the echo carries what the transcription returned
          /\ (pc[c] = "echo_send" /\ pc'[c] # "echo_send" /\ peer[c] = "open"
                => /\ frame[c].query_text \in Transcripts
                   /\ outbox'[c] = Append(outbox[c],
                         [type |-> "user_message", text |-> frame[c].query_text,
                          audio |-> None])
                   /\ frame'[c].query_text = frame[c].query_text
                   /\ pc'[c] \in {"pq_retrieve", "tts"})
          \* one echo for each audio query that got that far, each followed by
          \* the response to the echoed text
          /\ (pc'[c] # "done"
                => /\ CountType(outbox'[c], "user_message", Len(outbox'[c]))
                        = Len(SelectSeq(inbox'[c], IsAudio))
                            - (IF pc'[c] \in {"transcribe", "echo_send"} THEN 1 ELSE 0)
                   /\ \A i \in 1..Len(outbox'[c]) :
                        outbox'[c][i].type = "user_message"
                          => IF i = Len(outbox'[c])
                             THEN /\ pc'[c] \in {"pq_retrieve", "pq_generate", "tts",
                                                 "resp_send"}
                                  /\ frame'[c].query_text = outbox'[c][i].text
                             ELSE /\ outbox'[c][i + 1].type = "response"
                                  /\ turns'[c][CountType(outbox'[c], "response", i + 1) - 1][1]
                                        = outbox'[c][i].text)
      ]_vars

\* two audio queries were handled: each was echoed once, before its response
C20_Witness ==
    \E c \in Conns :
        /\ Len(inbox[c]) = 2
        /\ IsAudio(inbox[c][1]) /\ IsAudio(inbox[c][2])
        /\ [i \in 1..Len(outbox[c]) |-> outbox[c][i].type]
              = <<"response", "user_message", "response", "user_message", "response">>
        /\ outbox[c][2].text = TxtHours
        /\ outbox[c][4].text = WhisperNotLoaded
        /\ pc[c] = "receive"


FailureStrings == {WhisperNotLoaded, TranscriptionError}

\* C22: a bracketed failure string returned by transcribe_audio is a failure
\* signal, not the user's words: it is not the query of a turn (not given to
\* name detection or to process_query) and is no user entry of the history.
C22_FailureStringIsNoQuery ==
    \A c \in Conns :
        /\ (pc[c] \in {"pq_retrieve", "pq_generate", "tts", "resp_send"}
              => frame[c].query_text \notin FailureStrings)
        /\ \A i \in 1..Len(turns[c]) : turns[c][i][1] \notin FailureStrings
        /\ (c \in DOMAIN session_data
              => \A i \in 1..Len(session_data[c].chat_history) :
                    session_data[c].chat_history[i] \notin
                        {<<"user", f>> : f \in FailureStrings})


\* C23: a failed speech synthesis raises nothing and yields empty bytes: the
\* handler goes on to the send with an empty audio reference, sends the
\* `response` with the response text, appends the turn to the history and
\* waits for the next message (the loop ends there only if the client has
\* gone).
C23_SynthesisFailureIsRecovered ==
    [][\A c \in Conns :
          /\ (pc[c] = "tts" /\ pc'[c] # "tts"
                => /\ pc'[c] = "resp_send"
                   /\ frame'[c].audio_base64 \in {<<>>, <<"base64:", "mp3">>}
                   /\ frame'[c].response_text = frame[c].response_text
                   /\ c \in DOMAIN active_sessions')
          /\ (pc[c] = "resp_send" /\ frame[c].audio_base64 = <<>> /\ pc'[c] # "resp_send"
                => IF peer[c] = "open"
                   THEN /\ pc'[c] = "receive"
                        /\ c \in DOMAIN active_sessions'
                        /\ outbox'[c] = Append(outbox[c],
                              [type |-> "response", text |-> frame[c].response_text,
                               audio |-> <<>>])
                        /\ turns'[c] = Append(turns[c],
                              <<frame[c].query_text, frame[c].response_text>>)
                        /\ session_data'[c].chat_history =
                              LastN(session_data[c].chat_history
                                      \o << <<"user", frame[c].query_text>>,
                                            <<"assistant", frame[c].response_text>> >>, 10)
                   ELSE pc'[c] = "done")
      ]_vars

\* the synthesis failed for the first turn, whose response went out without
\* audio, and a second turn was completed with audio
C23_Witness ==
    \E c \in Conns :
        /\ Len(turns[c]) = 2
        /\ Len(outbox[c]) = 3
        /\ outbox[c][2] = [type |-> "response", text |-> <<"answer from:", "a1">>,
                           audio |-> <<>>]
        /\ outbox[c][3].audio = <<"base64:", "mp3">>
        /\ Len(session_data[c].chat_history) = 4
        /\ pc[c] = "receive"
        /\ c \in DOMAIN active_sessions


\* the handler is between the resolution of a query text and the send of its
\* response
InTurn(c) == pc[c] \in {"pq_retrieve", "pq_generate", "tts", "resp_send"}

Responses(c) == CountType(outbox[c], "response", Len(outbox[c]))

history(c) == IF c \in DOMAIN session_data THEN session_data[c].chat_history ELSE <<>>

\* C24: once a text_query or an audio_query has resolved to a query text, the
\* handler sends no `response` and leaves the history alone until the turn's
\* calls have returned; then, the connection being open, it sends exactly one
\* `response`, carrying the response text, and appends (user, query_text) and
\* (assistant, response_text), in this order, that text being the one sent.
\* Outside a turn only the greeting is a `response` and the history is not
\* written.
C24_OneResponseThenTwoEntries ==
    [][\A c \in Conns :
          /\ (InTurn(c)' /\ pc'[c] # pc[c]
                => /\ Responses(c)' = Responses(c)
                   /\ history(c)' = history(c)
                   /\ (InTurn(c) => /\ frame'[c].query_text = frame[c].query_text
                                    /\ outbox'[c] = outbox[c]
                                    /\ pc'[c] # "pq_retrieve"))
          /\ (InTurn(c) /\ ~InTurn(c)'
                => IF peer[c] = "open"
                   THEN /\ pc[c] = "resp_send"
                        /\ pc'[c] = "receive"
                        /\ outbox'[c] = Append(outbox[c],
                              [type |-> "response", text |-> frame[c].response_text,
                               audio |-> frame[c].audio_base64])
                        /\ Len(history(c)) <= 8
                              => history(c)' = history(c)
                                    \o << <<"user", frame[c].query_text>>,
                                          <<"assistant", outbox'[c][Len(outbox'[c])].text>> >>
                   ELSE /\ pc'[c] = "done"
                        /\ outbox'[c] = outbox[c]
                        /\ history(c)' = history(c))
          /\ (~InTurn(c) /\ ~InTurn(c)'
                => /\ history(c)' = history(c)
                   /\ (Responses(c)' # Responses(c) => pc[c] = "greet_send"))
      ]_vars

\* an audio query, then a text query were answered: one response each after
\* the greeting, and the history holds the two exchanges in order, with the
\* texts that were sent
C24_Witness ==
    \E c \in Conns :
        /\ Len(inbox[c]) = 2
        /\ HasType(inbox[c][1], "audio_query")
        /\ HasType(inbox[c][2], "text_query")
        /\ "text" \in DOMAIN inbox[c][2]
        /\ pc[c] = "receive"
        /\ [i \in 1..Len(outbox[c]) |-> outbox[c][i].type]
              = <<"response", "user_message", "response", "response">>
        /\ history(c) = << <<"user", outbox[c][2].text>>,
                           <<"assistant", outbox[c][3].text>>,
                           <<"user", strip(inbox[c][2].text)>>,
                           <<"assistant", outbox[c][4].text>> >>


\* C25: a request to /ingest/ whose source path is no directory is answered
\* 400 and load_and_embed_documents is not called (the store is untouched);
\* a call that collected no document, or whose commit to the index raised,
\* is answered 500 and adds no passage; the confirmation (200) is the answer
\* exactly when documents were collected and the commit returned.
C25_IngestStatus ==
    [][ingest_left' < ingest_left
          => /\ http_response' \in {200, 400, 500}
             /\ (http_response' = 400 <=> ~ingest_call'.called)
             /\ (http_response' = 400
                   => collections' = collections /\ ingested' = ingested)
             /\ (http_response' = 500
                   <=> /\ ingest_call'.called
                       /\ \/ ingest_call'.documents = 0
                          \/ ingest_call'.commit \in {"raise_early", "raise_late"})
             /\ (http_response' = 500 => ingested' = ingested)
             /\ (http_response' = 200
                   <=> /\ ingest_call'.called
                       /\ ingest_call'.documents > 0
                       /\ ingest_call'.commit = "ok")
      ]_vars

\* the three answers were given: the last request named no directory, and
\* before it one tenant's ingestion was confirmed while another call created
\* a collection and failed
C25_Witness ==
    /\ ingest_left = 0
    /\ http_response = 400
    /\ ~ingest_call.called
    /\ \E t \in Tenants : ingested[t] # {}
    /\ \E t \in Tenants : CollectionName(t) \in DOMAIN collections /\ ingested[t] = {}


OutboundTypes == {"error", "status", "response", "user_message"}

C27_ScratchFilesArePrivate ==
    [][/\ \A c, d \in Conns :
             c # d /\ Live(c)' /\ Live(d)'
                => TempAudioPath(ws_id'[c]) # TempAudioPath(ws_id'[d])
       /\ \A path \in DOMAIN files :
             IF path \in DOMAIN files'
             THEN files'[path] = files[path]
             ELSE LET owner == files[path][1]
                  IN  /\ frame[owner].temp_audio_path = path
                      /\ pc[owner] = "transcribe"
                      /\ pc'[owner] # "transcribe"
       /\ \A path \in DOMAIN files' \ DOMAIN files :
             LET owner == files'[path][1]
             IN  /\ path = TempAudioPath(ws_id[owner])
                 /\ pc[owner] = "receive"
                 /\ pc'[owner] = "transcribe"
      ]_vars

\* both connections await the transcription of their own scratch file
C27_Witness ==
    /\ \A c \in Conns : pc[c] = "transcribe"
    /\ Cardinality(DOMAIN files) = 2
    /\ \A c \in Conns : files[frame[c].temp_audio_path][1] = c


\* C28: a step of one connection's handler leaves the Session of every other
\* connection as it was (language, user_name, history and pipeline), and
\* its entry in the registry too; this holds for connections of the same
\* tenant and however the handlers interleave.
C28_SessionsAreNotShared ==
    [][\A c, d \in Conns :
          c # d /\ pc'[c] # pc[c]
             => /\ (d \in DOMAIN session_data
                      => d \in DOMAIN session_data' /\ session_data'[d] = session_data[d])
                /\ (d \in DOMAIN active_sessions
                      => /\ d \in DOMAIN active_sessions'
                         /\ active_sessions'[d] = active_sessions[d])
      ]_vars

\* two connections of the same tenant are in their loops, one has switched to
\* Hindi and the other has given a name and holds the history of that turn
C28_Witness ==
    \E c, d \in Conns :
        /\ c # d
        /\ client_id[c] = client_id[d]
        /\ pc[c] = "receive" /\ pc[d] = "receive"
        /\ session_data[c].language = "hi" /\ session_data[d].language = "en"
        /\ session_data[c].user_name = None /\ session_data[d].user_name = <<"B","o","b">>
        /\ session_data[c].chat_history = <<>> /\ Len(session_data[d].chat_history) = 2


\* C29: in the Choice handler, once create_rag_chain has returned a pipeline
\* the Session exists and has been registered, and a handler that has ended
\* while its client was still there had sent the greeting and entered the
\* receive loop.
C29_ChoiceSetupReachesLoop ==
    \A c \in Conns :
        life[c].built > 0 /\ ~life[c].config_error
           => /\ c \in DOMAIN session_data
              /\ life[c].inserts = 1
              /\ (pc[c] = "done" /\ peer[c] = "open"
                    => /\ life[c].reached_loop
                       /\ outbox[c] # <<>>
                       /\ outbox[c][1].type = "response")

ChoiceAudioQueryIsATurn ==
    \A c \in Conns :
        pc[c] = "choice_receive"
           => LET queries == SelectSeq(inbox[c], IsAudio)
              IN  /\ Len(turns[c]) = Len(queries)
                  /\ Responses(c) = 1 + Len(queries)
                  /\ history(c) = LastN(Exchanges(turns[c]), 10)


\* the places of the handler between the insert of line 115 and the finally
\* clause of lines 259-261
AfterInsert ==
    {"greet_tts", "greet_send", "receive", "status_send", "error_send", "transcribe",
     "echo_send", "pq_retrieve", "pq_generate", "tts", "resp_send"}

\* the handler of c has executed the insert and has not executed its cleanup
\* (it is still running, or it ended outside the loop's try)
InsertedNotCleaned(c) ==
    \/ pc[c] \in AfterInsert
    \/ pc[c] = "done" /\ life[c].exit = "escaped" /\ life[c].inserts = 1

\* C31: with the handlers of several connections interleaved at their awaits,
\* active_sessions holds exactly the connections whose handler has executed
\* the insert and not its cleanup, each under its own key with its own
\* Session: no insert or delete loses or overwrites another entry.
C31_RegistryIsExact ==
    /\ DOMAIN active_sessions = {c \in Conns : InsertedNotCleaned(c)}
    /\ \A c \in DOMAIN active_sessions :
          /\ active_sessions[c] = <<"session of", c>>
          /\ life[c].inserts = 1 /\ life[c].removals = 0
    /\ \A c \in Conns \ DOMAIN active_sessions : life[c].removals = life[c].inserts

\* one handler has run its cleanup while the other connection, registered
\* before that, is still in its loop and registered
C31_Witness ==
    \E c, d \in Conns :
        /\ c # d
        /\ pc[c] = "done" /\ life[c].removals = 1
        /\ pc[d] = "transcribe"
        /\ DOMAIN active_sessions = {d}


\* C32: while a transcription is in progress on a scratch file (the handler
\* awaits it, or was cancelled in that await and the worker thread is still
\* running) the file exists: it is removed only once transcribe_audio has
\* come to its end.
C32_NoRemovalDuringTranscription ==
    \A c \in Conns :
        pc[c] \in {"transcribe", "orphan_transcribe"}
           => frame[c].temp_audio_path \in DOMAIN files


\* C33: the history of a session has even length and its roles alternate
\* user, assistant from a user entry to an assistant entry; every pair of
\* entries is the query and the response of one completed turn, so the trim
\* to the last 10 entries never keeps half an exchange.
C33_HistoryAlternates ==
    \A c \in DOMAIN session_data :
        LET h == session_data[c].chat_history
        IN  /\ Len(h) % 2 = 0
            /\ \A i \in 1..Len(h) :
                  h[i][1] = IF i % 2 = 1 THEN "user" ELSE "assistant"
            /\ \A i \in 1..Len(h) :
                  i % 2 = 1
                     => \E j \in 1..Len(turns[c]) : turns[c][j] = <<h[i][2], h[i + 1][2]>>

\* the trim has dropped the first exchange: the history begins with the user
\* entry of the second turn and ends with the assistant entry of the sixth
C33_Witness ==
    \E c \in DOMAIN session_data :
        LET h == session_data[c].chat_history
        IN  /\ Len(turns[c]) = 6
            /\ Len(h) = 10
            /\ h[1] = <<"user", turns[c][2][1]>>
            /\ h[10] = <<"assistant", turns[c][6][2]>>
            /\ turns[c][1][1] # turns[c][2][1]


\* the language set by the most recent language_switch among msgs, "en" when
\* there is none
RECURSIVE CurrentLanguage(_)
CurrentLanguage(msgs) ==
    IF msgs = <<>> THEN "en"
    ELSE IF IsSwitch(msgs[Len(msgs)]) THEN msgs[Len(msgs)].language
    ELSE CurrentLanguage(SubSeq(msgs, 1, Len(msgs) - 1))

\* C34: a session is created with language "en"; the language changes only
\* in the step that reads a language_switch, to that message's value, so it
\* is always the value of the most recent switch; the greeting is synthesized
\* with "en" and the response of a turn with the language of the most recent
\* switch.
C34_LanguageFollowsSwitches ==
    [][\A c \in Conns :
          /\ (c \in DOMAIN session_data'
                => session_data'[c].language = CurrentLanguage(inbox'[c]))
          /\ (c \in DOMAIN session_data /\ c \in DOMAIN session_data'
                /\ session_data'[c].language # session_data[c].language
                => /\ pc[c] = "receive" /\ pc'[c] = "status_send"
                   /\ inbox'[c] = Append(inbox[c], inbox'[c][Len(inbox'[c])])
                   /\ IsSwitch(inbox'[c][Len(inbox'[c])]))
          /\ (pc[c] = "greet_tts" /\ pc'[c] = "greet_send"
                => frame'[c].tts_language = "en")
          /\ (pc[c] = "tts" /\ pc'[c] = "resp_send"
                => frame'[c].tts_language = CurrentLanguage(inbox[c]))
      ]_vars

\* after a switch to Hindi, the response to a following query is synthesized
\* with "hi" and is about to be sent
C34_Witness ==
    \E c \in Conns :
        /\ Len(inbox[c]) = 2
        /\ inbox[c][1] = [type |-> "language_switch", language |-> "hi"]
        /\ IsQuery(inbox[c][2])
        /\ pc[c] = "resp_send"
        /\ frame[c].tts_language = "hi"
        /\ session_data[c].language = "hi"


\* the query of a text_query message: its text field, stripped, or the empty
\* text when the field is missing
QueryOf(data) == IF "text" \in DOMAIN data THEN strip(data.text) ELSE <<>>

IsPrefix(s, t) == Len(s) <= Len(t) /\ SubSeq(t, 1, Len(s)) = s

\* C36: an ingestion removes no chunk of any collection; a confirmed one
\* appends the chunks of its directory to what the tenant's collection held
\* and leaves every other collection as it was, so that ingesting a directory
\* twice stores its chunks twice.
C36_IngestionAppends ==
    [][ingest_left' < ingest_left
          => /\ \A name \in DOMAIN collections :
                   name \in DOMAIN collections' /\ IsPrefix(collections[name], collections'[name])
             /\ (http_response' = 200
                   => \E client \in Tenants, source \in DOMAIN DirListing :
                         LET name == CollectionName(client)
                             old == IF name \in DOMAIN collections THEN collections[name]
                                    ELSE <<>>
                         IN  /\ DOMAIN collections' = DOMAIN collections \cup {name}
                             /\ collections'[name]
                                   = old \o split_documents(LoadAll(DirListing[source]))
                             /\ \A other \in DOMAIN collections \ {name} :
                                   collections'[other] = collections[other])
             /\ (http_response' # 200
                   => \A name \in DOMAIN collections : collections'[name] = collections[name])
      ]_vars

\* tenant A's directory was ingested twice and tenant B's once in between or
\* around: A's collection holds its chunk twice, B's holds its own
C36_Witness ==
    /\ CollectionName("A") \in DOMAIN collections
    /\ CollectionName("B") \in DOMAIN collections
    /\ collections[CollectionName("A")] = <<"a1", "a1">>
    /\ collections[CollectionName("B")] = <<"b1">>

\* the files of a directory that have a loader and whose load returns
Usable(file) ==
    /\ LowerExt(file.ext) \in {".pdf", ".docx", ".csv", ".txt"}
    /\ file.loads

\* the documents of the usable files of a directory, in the order of the listing
UsableDocuments(listing) ==
    LET usable == SelectSeq(listing, Usable)
    IN  Cat([i \in 1..Len(usable) |-> usable[i].docs])

\* C37: load_and_embed_documents collects the documents of every file that
\* has a supported extension and loads, whatever comes before or after it in
\* the directory (a file without loader, or whose load raises, is passed
\* over); it is answered with a failure exactly when no file yielded a
\* document or the commit to the index raised.
C37_BadFilesAreSkipped ==
    [][ingest_left' < ingest_left /\ ingest_call'.called
          => /\ \A source \in DOMAIN DirListing :
                   LoadAll(DirListing[source]) = UsableDocuments(DirListing[source])
             /\ \E client \in Tenants, source \in DOMAIN DirListing :
                LET documents == UsableDocuments(DirListing[source])
                    name == CollectionName(client)
                    old == IF name \in DOMAIN collections THEN collections[name] ELSE <<>>
                IN  /\ ingest_call'.documents = Len(documents)
                    /\ (http_response' = 500
                          <=> documents = <<>> \/ ingest_call'.commit # "ok")
                    /\ (http_response' = 200
                          => /\ name \in DOMAIN collections'
                             /\ collections'[name] = old \o Cat(documents))
      ]_vars

\* a directory whose first file fails to load and whose last file has no
\* loader was ingested: the chunks of the file in between are in the store
C37_Witness ==
    /\ http_response = 200
    /\ ingest_call.documents = 1
    /\ \E client \in Tenants :
          /\ CollectionName(client) \in DOMAIN collections
          /\ collections[CollectionName(client)] = <<"t1", "t2">>

=============================================================================
